---- MODULE Spec2Model ----
(***************************************************************************)
(* Grid-to-tables extraction engine of the dashboard (app.py, utils.py):   *)
(* section locators, the section extractors, the key/value metrics         *)
(* extractor, column de-duplication, the mode selector and the TTL cache   *)
(* in front of them.                                                       *)
(*                                                                         *)
(* Text.  A Python str is modelled as the sequence of its characters, each *)
(* character a one-character string, so that strip, lower, startswith,     *)
(* replace and substring search are computed and not assumed.  The         *)
(* accented letters of the sheet are the two-character tokens "a~" (a with *)
(* tilde), "e'" (e acute), "c," (c cedilla) and their capitals.            *)
(*                                                                         *)
(* Cells.  A grid cell is a text or NaN (an empty cell as pandas reads     *)
(* it).  Values that extraction produces are tagged tuples: <<"NUM",n,d>>  *)
(* is the number n / 10^d, <<"DATE",y,m,d>> a timestamp, <<"NaT">> the     *)
(* missing timestamp.  Tags have more than one character, so no tagged     *)
(* value equals a text.                                                    *)
(*                                                                         *)
(* Rows.  Python positions are 0-based; rows and columns here are 1-based, *)
(* and 0 stands for None where the code returns an optional position.      *)
(***************************************************************************)
EXTENDS Naturals, Integers, Sequences, FiniteSets, TLC

VARIABLES
  df_raw,     \* the grid handed to an extractor (rows of cells)
  out,        \* what the last operation returned: [op, val]
  columns,    \* df.columns handed to _dedupe_columns
  csv,        \* the table behind GOOGLE_SHEET_CSV_URL as utils.py reads it, or NoSource
  xlsx,       \* the first sheet of the workbook as utils.py reads it, or NoSource
  download,   \* the call of _download_to_bytes in progress: its locals and its effects
  _DF_CACHE,  \* app.py's module-level cache: [df, loaded_at, mode]
  app_globals,\* globals() of app.py: [LAST_LOADED, DATA_MODE]
  frames,     \* the frame objects load_dataframe has returned, by identity
  clock,      \* datetime.utcnow(), in ticks
  sheet,      \* what the configured source serves now: Up(grid) or Down
  req,        \* per request: where it is in its handler and what it holds
  loads       \* how many times load_dataframe has been entered

extract_vars == <<df_raw, out>>
inputs_vars == <<csv, xlsx, download>>
cache_vars == <<_DF_CACHE, app_globals, frames, clock, sheet, req, loads>>
vars == <<df_raw, out, columns, csv, xlsx, download, _DF_CACHE, app_globals, frames, clock, sheet,
          req, loads>>

(***************************** text literals *******************************)
s_nan == <<"n","a","n">>
s_col == <<"c","o","l">>
s_total == <<"t","o","t","a","l">>
s_total_geral == <<"t","o","t","a","l"," ","g","e","r","a","l">>
s_profissoes == <<"p","r","o","f","i","s","s","o","e","s">>
s_campo == <<"c","a","m","p","o">>
s_CAMPO == <<"C","A","M","P","O">>
s_vendas_realizadas == <<"v","e","n","d","a","s","_","r","e","a","l","i","z","a","d","a","s">>
s_progecao_de_resultados == <<"p","r","o","g","e","c","a","o","_","d","e","_","r","e","s","u","l","t","a","d","o","s">>
s_estado_x_profissao == <<"e","s","t","a","d","o"," ","x"," ","p","r","o","f","i","s","s","a","o">>
s_regiao_por_profissao == <<"r","e","g","i","a","o"," ","p","o","r"," ","p","r","o","f","i","s","s","a","o">>
s_Data == <<"D","a","t","a">>
s_valor_venda == <<"v","a","l","o","r","_","v","e","n","d","a">>
s_valor_liquido == <<"v","a","l","o","r","_","l","i","q","u","i","d","o">>
s_Estado == <<"E","s","t","a","d","o">>
s_Regiao == <<"R","e","g","i","a","o">>
s_Profissao == <<"P","r","o","f","i","s","s","a","o">>
s_valor_atual == <<"v","a","l","o","r"," ","a","t","u","a","l">>
s_valor_atual_us == <<"v","a","l","o","r","_","a","t","u","a","l">>
s_valor == <<"v","a","l","o","r">>
s_RS == <<"R","$">>
s_Metrica == <<"M","e'","t","r","i","c","a">>
s_performance_real == <<"p","e","r","f","o","r","m","a","n","c","e","_","r","e","a","l">>
s_projecao_lancamento == <<"p","r","o","j","e","c","a","o","_","l","a","n","c","a","m","e","n","t","o">>
s_potencial_otimista == <<"p","o","t","e","n","c","i","a","l","_","o","t","i","m","i","s","t","a">>
s_empty == << >>
s_underscore == <<"_">>
s_dot == <<".">>
s_comma == <<",">>
s_space == <<" ">>
s_pct == <<"%">>

(******************************* text layer ********************************)
NaN == <<"NaN">>
NaT == <<"NaT">>
Num(n, d) == <<"NUM", n, d>>

\* str(x) / Series.astype(str): NaN prints as "nan"
Str(c) == IF c = NaN THEN s_nan ELSE c

IsSpace(ch) == ch = " "

RECURSIVE LStrip(_)
LStrip(s) == IF s = << >> THEN s
             ELSE IF IsSpace(Head(s)) THEN LStrip(Tail(s)) ELSE s

RECURSIVE RStrip(_)
RStrip(s) == IF s = << >> THEN s
             ELSE IF IsSpace(s[Len(s)]) THEN RStrip(SubSeq(s, 1, Len(s) - 1)) ELSE s

\* str.strip()
Strip(s) == RStrip(LStrip(s))

UpperAZ == <<"A","B","C","D","E","F","G","H","I","J","K","L","M",
             "N","O","P","Q","R","S","T","U","V","W","X","Y","Z">>
LowerAZ == <<"a","b","c","d","e","f","g","h","i","j","k","l","m",
             "n","o","p","q","r","s","t","u","v","w","x","y","z">>

LowerCh(ch) ==
  CASE ch \in {UpperAZ[i] : i \in 1..26} -> LowerAZ[CHOOSE i \in 1..26 : UpperAZ[i] = ch]
    [] ch = "A~" -> "a~"
    [] ch = "E'" -> "e'"
    [] ch = "C," -> "c,"
    [] OTHER -> ch

\* str.lower()
Lower(s) == [i \in 1..Len(s) |-> LowerCh(s[i])]

\* unicodedata.normalize('NFD', s).encode('ascii', 'ignore'): the base letter stays
AsciiCh(ch) ==
  CASE ch = "a~" -> "a" [] ch = "A~" -> "A"
    [] ch = "e'" -> "e" [] ch = "E'" -> "E"
    [] ch = "c," -> "c" [] ch = "C," -> "C"
    [] OTHER -> ch

Ascii(s) == [i \in 1..Len(s) |-> AsciiCh(s[i])]

_strip_accents_lower(c) == Lower(Strip(Ascii(Str(c))))

\* str.startswith
StartsWith(s, p) == Len(s) >= Len(p) /\ SubSeq(s, 1, Len(p)) = p

\* str.contains(n, regex=False) / "n in s"
Contains(s, n) ==
  Len(s) >= Len(n) /\ \E i \in 0..(Len(s) - Len(n)) : SubSeq(s, i + 1, i + Len(n)) = n

\* str.replace(old, new), old not empty
RECURSIVE Replace(_, _, _)
Replace(s, old, new) ==
  IF Len(s) < Len(old) THEN s
  ELSE IF StartsWith(s, old)
       THEN new \o Replace(SubSeq(s, Len(old) + 1, Len(s)), old, new)
       ELSE <<Head(s)>> \o Replace(Tail(s), old, new)

Digits == <<"0","1","2","3","4","5","6","7","8","9">>
IsDigit(ch) == \E i \in 1..10 : Digits[i] = ch
DigitVal(ch) == (CHOOSE i \in 1..10 : Digits[i] = ch) - 1
AllDigits(s) == \A i \in 1..Len(s) : IsDigit(s[i])

RECURSIVE NatOf(_)
NatOf(s) == IF s = << >> THEN 0
            ELSE 10 * NatOf(SubSeq(s, 1, Len(s) - 1)) + DigitVal(s[Len(s)])

\* a number in lowest decimal form: no trailing zero in the fraction
RECURSIVE NormNum(_, _)
NormNum(n, d) == IF d > 0 /\ n % 10 = 0 THEN NormNum(n \div 10, d - 1) ELSE Num(n, d)

\* the digits before and after the decimal point at position p of body
float_parts(neg, body, p) ==
  IF /\ AllDigits(SubSeq(body, 1, p - 1)) /\ AllDigits(SubSeq(body, p + 1, Len(body)))
     /\ Len(body) > (IF p > Len(body) THEN 0 ELSE 1)
  THEN NormNum((IF neg THEN -1 ELSE 1)
                 * NatOf(SubSeq(body, 1, p - 1) \o SubSeq(body, p + 1, Len(body))),
               IF p > Len(body) THEN 0 ELSE Len(body) - p)
  ELSE NaN

\* body is the literal without its sign: split it at its first "."
float_body(neg, body) ==
  IF \E i \in 1..Len(body) : body[i] = "."
  THEN float_parts(neg, body, CHOOSE i \in 1..Len(body) :
                                 body[i] = "." /\ \A k \in 1..(i - 1) : body[k] # ".")
  ELSE float_parts(neg, body, Len(body) + 1)

float_signed(s) ==
  IF s = << >> THEN NaN
  ELSE IF Head(s) \in {"-", "+"} THEN float_body(Head(s) = "-", Tail(s))
  ELSE float_body(FALSE, s)

\* float(text) / pd.to_numeric(text) on a decimal literal [sign] digits [. digits];
\* NaN when the text is no such literal (errors="coerce", or the except branch)
ParseFloat(t) == float_signed(Strip(t))

date_of(s) ==
  IF /\ Len(s) = 10 /\ s[3] = "/" /\ s[6] = "/"
     /\ AllDigits(SubSeq(s, 1, 2)) /\ AllDigits(SubSeq(s, 4, 5)) /\ AllDigits(SubSeq(s, 7, 10))
     /\ NatOf(SubSeq(s, 1, 2)) \in 1..31 /\ NatOf(SubSeq(s, 4, 5)) \in 1..12
  THEN <<"DATE", NatOf(SubSeq(s, 7, 10)), NatOf(SubSeq(s, 4, 5)), NatOf(SubSeq(s, 1, 2))>>
  ELSE NaT

\* pd.to_datetime(text, errors="coerce", dayfirst=True) on dd/mm/yyyy; NaT otherwise
ToDatetime(c) == date_of(Strip(Str(c)))

RECURSIVE NatStr(_)
\* str(k) of a natural number
NatStr(k) == IF k < 10 THEN <<Digits[k + 1]>>
             ELSE NatStr(k \div 10) \o <<Digits[(k % 10) + 1]>>

Indices(n) == [i \in 1..n |-> i]

(******************************* grid layer ********************************)
nrows(g) == Len(g)
ncols(g) == IF g = << >> THEN 0 ELSE Len(g[1])
\* DataFrame.empty
IsEmpty(g) == nrows(g) = 0 \/ ncols(g) = 0
\* df_raw[0]
Col0(g) == [i \in 1..Len(g) |-> g[i][1]]
\* Series.isna().all() of one row
RowIsNa(row) == \A j \in 1..Len(row) : row[j] = NaN

Table(cols, rows) == [kind |-> "table", columns |-> cols, rows |-> rows, exc |-> "none"]
\* pd.DataFrame()
EmptyDataFrame == Table(<< >>, << >>)
Raise(e) == [kind |-> "error", columns |-> << >>, rows |-> << >>, exc |-> e]

Count(seq, x) == Cardinality({i \in 1..Len(seq) : seq[i] = x})

\* the smallest member of a set of positions, 0 (None) when there is none
FirstOf(hits) == IF hits = {} THEN 0 ELSE CHOOSE i \in hits : \A k \in hits : i <= k

\* first row whose normalised text equals the normalised value, 0 for None
_first_eq(series, value) ==
  FirstOf({i \in 1..Len(series) :
             _strip_accents_lower(series[i]) = _strip_accents_lower(value)})

\* first row whose normalised text contains the normalised needle, 0 for None
_first_match_contains(series, needle) ==
  FirstOf({i \in 1..Len(series) :
             Contains(_strip_accents_lower(series[i]), _strip_accents_lower(needle))})

\* Series.fillna(0.0) of one converted cell
ZeroIfNaN(v) == IF v = NaN THEN Num(0, 0) ELSE v

\* DataFrame.fillna("") of one cell
FillNa(c) == IF c = NaN THEN s_empty ELSE c

\* DataFrame.fillna("")
FillRows(body) == [i \in 1..Len(body) |-> [j \in 1..Len(body[i]) |-> FillNa(body[i][j])]]

(***************************** _dedupe_columns *****************************)
\* a single suffix, tried once
dedupe_name_once(base, k, seen) ==
  IF base \in seen THEN base \o s_underscore \o NatStr(2) ELSE base

RECURSIVE dedupe_name(_, _, _)
\* the while loop: the first of base, base_2, base_3, ... that is not in seen
dedupe_name(base, k, seen) ==
  LET name == IF k = 1 THEN base ELSE base \o s_underscore \o NatStr(k) IN
  IF name \in seen THEN dedupe_name(base, k + 1, seen) ELSE name

dedupe_base(c) ==
  LET base == Strip(Str(c)) IN
  IF base = s_empty \/ Lower(base) = s_nan THEN s_col ELSE base

RECURSIVE dedupe_from(_, _, _)
dedupe_from(cols, i, new_cols) ==
  IF i > Len(cols) THEN new_cols
  ELSE dedupe_from(cols, i + 1,
         Append(new_cols,
                dedupe_name(dedupe_base(cols[i]), 1, {new_cols[m] : m \in 1..Len(new_cols)})))

\* the new column names, in order
_dedupe_columns(cols) == dedupe_from(cols, 1, << >>)

(************************ extract_vendas_realizadas ************************)
\* the while loop: the row where the scan stops, Len(g)+1 at the grid end;
\* 0 when df_raw.iloc[end, 1] is evaluated on a one-column grid (IndexError)
RECURSIVE vendas_end(_, _)
vendas_end(g, end) ==
  IF end > Len(g) THEN end
  ELSE IF StartsWith(Lower(Strip(Str(g[end][1]))), s_total) THEN end
  ELSE IF Strip(Str(g[end][1])) = s_nan
       THEN IF ncols(g) < 2 THEN 0
            ELSE IF Strip(Str(g[end][2])) = s_nan THEN end
                 ELSE vendas_end(g, end + 1)
       ELSE vendas_end(g, end + 1)

\* the currency clean-up and pd.to_numeric(...).fillna(0.0) of one cell
vendas_money(c) ==
  ZeroIfNaN(ParseFloat(Strip(Replace(Replace(Replace(Str(c), s_RS, s_empty),
                                             s_dot, s_empty), s_comma, s_dot))))

vendas_cell(name, c) ==
  IF name = s_Data THEN ToDatetime(c)
  ELSE IF name \in {s_valor_venda, s_valor_liquido} THEN vendas_money(c)
  ELSE c

\* the conversions of the named columns
vendas_table(cols, body) ==
  IF Count(cols, s_Data) > 1 THEN Raise("ValueError")       \* to_datetime of a DataFrame
  ELSE IF \E m \in {s_valor_venda, s_valor_liquido} : Count(cols, m) > 1
       THEN Raise("AttributeError")                         \* DataFrame has no .str
  ELSE Table(cols, [i \in 1..Len(body) |->
                      [j \in 1..Len(cols) |-> vendas_cell(cols[j], body[i][j])]])

\* sub = df_raw.iloc[header_row:end]; its first row becomes the header
vendas_slice(g, header_row, end) ==
  IF end = 0 THEN Raise("IndexError")
  ELSE IF header_row > Len(g) THEN Raise("IndexError")      \* sub.iloc[0] of an empty frame
  ELSE vendas_table(g[header_row], SubSeq(g, header_row + 1, end - 1))

vendas_from(g, start) ==
  IF start = 0 THEN EmptyDataFrame
  ELSE vendas_slice(g, start + 1, vendas_end(g, start + 2))

extract_vendas_realizadas(g) ==
  IF IsEmpty(g) THEN EmptyDataFrame
  ELSE vendas_from(g, _first_eq(Col0(g), s_vendas_realizadas))

(***************************** extract_projecao ****************************)
\* the while loop with the blank-row counter: the row where the scan stops
RECURSIVE proj_end(_, _, _)
proj_end(g, end, blank) ==
  IF end > Len(g) THEN end
  ELSE IF RowIsNa(g[end])
       THEN (IF blank + 1 >= 2 THEN end ELSE proj_end(g, end + 1, blank + 1))
       ELSE proj_end(g, end + 1, 0)

\* the name of column i (0-based) whose trimmed header text is s
proj_name(i, s) ==
  IF s = s_empty \/ Lower(s) = s_nan THEN s_col \o s_underscore \o NatStr(i) ELSE s

\* _norm(i, c), i the 0-based position of the column
proj_norm(i, c) == proj_name(i, Strip(Str(c)))

proj_wanted == <<s_Metrica, s_performance_real, s_projecao_lancamento, s_potencial_otimista>>

\* str.casefold()
Casefold(s) == Lower(s)

\* the last of a set of positions, 0 when there is none
LastOf(hits) == IF hits = {} THEN 0 ELSE CHOOSE i \in hits : \A k \in hits : k <= i

\* lower_map.get(w.casefold()): the last live column with that casefold, 0 for None
proj_lookup(cols, live, w) ==
  IF LastOf({k \in 1..Len(live) : Casefold(cols[live[k]]) = Casefold(w)}) = 0 THEN 0
  ELSE live[LastOf({k \in 1..Len(live) : Casefold(cols[live[k]]) = Casefold(w)})]

\* the wanted columns that exist, in the wanted order
proj_selected(cols, live) ==
  SelectSeq([k \in 1..Len(proj_wanted) |-> proj_lookup(cols, live, proj_wanted[k])],
            LAMBDA j : j # 0)

\* the columns that are not empty in every row
proj_live(cols, rows) ==
  SelectSeq(Indices(Len(cols)),
            LAMBDA j : ~(\A i \in 1..Len(rows) : Strip(rows[i][j]) = s_empty))

\* sub[pick]
proj_project(cols, rows, pick) ==
  Table([k \in 1..Len(pick) |-> cols[pick[k]]],
        [i \in 1..Len(rows) |-> [k \in 1..Len(pick) |-> rows[i][pick[k]]]])

proj_keep(cols, rows, live, selected) ==
  proj_project(cols, rows, IF selected # << >> THEN selected ELSE live)

proj_table(cols, rows) ==
  IF \E j \in 1..Len(cols) : Count(cols, cols[j]) > 1
  THEN Raise("AttributeError")                              \* sub[c] is a DataFrame: no .str
  ELSE proj_keep(cols, rows, proj_live(cols, rows), proj_selected(cols, proj_live(cols, rows)))

\* sub = df_raw.iloc[header_row:end]; header, then dropna(how="all").fillna("")
proj_slice(g, header_row, end) ==
  IF header_row > Len(g) THEN Raise("IndexError")           \* sub.iloc[0] of an empty frame
  ELSE proj_table([j \in 1..ncols(g) |-> proj_norm(j - 1, g[header_row][j])],
                  FillRows(SelectSeq(SubSeq(g, header_row + 1, end - 1),
                                     LAMBDA r : ~RowIsNa(r))))

proj_from(g, start) ==
  IF start = 0 THEN EmptyDataFrame
  ELSE proj_slice(g, start + 1, proj_end(g, start + 2, 0))

extract_projecao(g) ==
  IF IsEmpty(g) THEN EmptyDataFrame
  ELSE proj_from(g, _first_match_contains(Col0(g), s_progecao_de_resultados))

(***************** extract_estado_profissao / extract_regiao_profissao *****************)
\* pd.to_numeric(text with "." removed and "," turned into ".", errors="coerce")
pivot_num(c) == ParseFloat(Replace(Replace(Str(c), s_dot, s_empty), s_comma, s_dot))

\* the coerced numbers of every cell
pivot_nums(rows) ==
  [i \in 1..Len(rows) |-> [j \in 1..Len(rows[i]) |-> pivot_num(rows[i][j])]]

\* a column after the first is numeric when at least half of its cells parse
pivot_numeric(nums, j) ==
  /\ j > 1 /\ Len(nums) > 0
  /\ 2 * Cardinality({i \in 1..Len(nums) : nums[i][j] # NaN}) >= Len(nums)

\* a numeric column is replaced by its numbers, NaN by 0
pivot_convert(rows, nums) ==
  [i \in 1..Len(rows) |-> [j \in 1..Len(rows[i]) |->
     IF pivot_numeric(nums, j) THEN ZeroIfNaN(nums[i][j]) ELSE rows[i][j]]]

\* the filter on the key column
pivot_filter(cols, conv) == Table(cols, SelectSeq(conv, LAMBDA r : Strip(Str(r[1])) # s_empty))

pivot_rows(cols, rows) == pivot_filter(cols, pivot_convert(rows, pivot_nums(rows)))

\* the numeric pass over the columns after the first, then the filter on the key column
pivot_table(cols, body) == pivot_rows(cols, FillRows(body))

\* the first name of a de-duplicated header replaced by the dimension name
pivot_rename(d, dim) ==
  IF d[1] # dim THEN [j \in 1..Len(d) |-> IF j = 1 THEN dim ELSE d[j]] ELSE d

\* the header after _dedupe_columns, its first name replaced by the dimension name
pivot_columns(header, dim) == pivot_rename(_dedupe_columns(header), dim)

\* the while loop of extract_estado_profissao: the row where the scan stops
RECURSIVE estado_end(_, _)
estado_end(g, end) ==
  IF end > Len(g) THEN end
  ELSE IF \/ Lower(Strip(Str(g[end][1]))) = s_empty
          \/ StartsWith(Lower(Strip(Str(g[end][1]))), s_regiao_por_profissao)
       THEN end
       ELSE estado_end(g, end + 1)

estado_table(cols, body) ==
  IF Count(cols, s_Estado) > 1
  THEN Raise("AttributeError")                              \* sub["Estado"] is a DataFrame
  ELSE pivot_table(cols, body)

\* sub = df_raw.iloc[header_row:end]; its first row becomes the header
estado_slice(g, header_row, end) ==
  IF header_row > Len(g) THEN Raise("IndexError")           \* sub.iloc[0] of an empty frame
  ELSE estado_table(pivot_columns(g[header_row], s_Estado), SubSeq(g, header_row + 1, end - 1))

estado_from(g, start) ==
  IF start = 0 THEN EmptyDataFrame
  ELSE estado_slice(g, start + 1, estado_end(g, start + 2))

extract_estado_profissao(g) ==
  IF IsEmpty(g) THEN EmptyDataFrame
  ELSE estado_from(g, _first_match_contains(Col0(g), s_estado_x_profissao))

\* the while loop of extract_regiao_profissao: the first fully-blank row
RECURSIVE regiao_end(_, _)
regiao_end(g, end) ==
  IF end > Len(g) THEN end
  ELSE IF RowIsNa(g[end]) THEN end ELSE regiao_end(g, end + 1)

regiao_table(cols, body) ==
  IF Count(cols, s_Regiao) > 1
  THEN Raise("AttributeError")                              \* sub["Regiao"] is a DataFrame
  ELSE pivot_table(cols, body)

\* sub = df_raw.iloc[header_row:end]; its first row becomes the header
regiao_slice(g, header_row, end) ==
  IF header_row > Len(g) THEN Raise("IndexError")           \* sub.iloc[0] of an empty frame
  ELSE regiao_table(pivot_columns(g[header_row], s_Regiao), SubSeq(g, header_row + 1, end - 1))

regiao_from(g, start) ==
  IF start = 0 THEN EmptyDataFrame
  ELSE regiao_slice(g, start + 1, regiao_end(g, start + 2))

extract_regiao_profissao(g) ==
  IF IsEmpty(g) THEN EmptyDataFrame
  ELSE regiao_from(g, _first_match_contains(Col0(g), s_regiao_por_profissao))

(*********************** extract_profissoes_por_canal ***********************)
s_youtube == <<"y","o","u","t","u","b","e">>
s_facebook == <<"f","a","c","e","b","o","o","k">>
s_instagram == <<"i","n","s","t","a","g","r","a","m">>
s_email == <<"e","m","a","i","l">>
s_manychat == <<"m","a","n","y","c","h","a","t">>
s_redirect == <<"r","e","d","i","r","e","c","t">>
channel_keywords ==
  {s_youtube, s_facebook, s_instagram, s_email, s_manychat, s_redirect, s_total}

LookaheadRows == 15
MinNonEmpty == 4
MinScore == 2

\* the test of one row of the lookahead window
prof_score(cells) ==
  /\ Cardinality({j \in 1..Len(cells) : cells[j] \notin {s_empty, s_nan}}) >= MinNonEmpty
  /\ Cardinality({j \in 1..Len(cells) : \E kw \in channel_keywords : Contains(cells[j], kw)})
       >= MinScore

prof_is_header(row) == prof_score([j \in 1..Len(row) |-> _strip_accents_lower(row[j])])

\* the first row of a set of candidates, start + 2 when there is none
prof_first(cand, start) ==
  IF cand = {} THEN start + 2 ELSE CHOOSE r \in cand : \A k \in cand : r <= k

\* the header row: the first row of the window that passes, else start + 2
prof_header_row(g, start) ==
  prof_first({r \in (start + 1)..(start + LookaheadRows) : r <= Len(g) /\ prof_is_header(g[r])},
             start)

\* pd.to_numeric(text with "%" and "." removed and "," turned into ".", errors="coerce")
prof_num(c) ==
  ParseFloat(Replace(Replace(Replace(Str(c), s_pct, s_empty), s_dot, s_empty), s_comma, s_dot))

\* the first row at or after ds with a label and at least two numbers
RECURSIVE prof_data_start(_, _)
prof_data_start(g, ds) ==
  IF ds > Len(g) THEN ds
  ELSE IF /\ Strip(Str(g[ds][1])) \notin {s_empty, s_nan}
          /\ Cardinality({j \in 2..Len(g[ds]) : prof_num(g[ds][j]) # NaN}) >= 2
       THEN ds
       ELSE prof_data_start(g, ds + 1)

\* the first row at or after end that is blank or labelled "total geral"
RECURSIVE prof_end(_, _)
prof_end(g, end) ==
  IF end > Len(g) THEN end
  ELSE IF StartsWith(Lower(Strip(Str(g[end][1]))), s_total_geral) \/ RowIsNa(g[end])
       THEN end
       ELSE prof_end(g, end + 1)

\* the coerced numbers of every cell
prof_nums(rows) ==
  [i \in 1..Len(rows) |-> [j \in 1..Len(rows[i]) |-> prof_num(rows[i][j])]]

\* a quantity column: no "%" in the name, at least half of the cells numeric,
\* some cell not zero
prof_qty(cols, nums, j) ==
  /\ ~Contains(_strip_accents_lower(cols[j]), s_pct)
  /\ 2 * Cardinality({i \in 1..Len(nums) : nums[i][j] # NaN}) >= Len(nums)
  /\ \E i \in 1..Len(nums) : nums[i][j] \notin {NaN, Num(0, 0)}

\* keep = ["Profissao"] + the quantity columns
prof_keep(cols, nums) ==
  <<1>> \o SelectSeq(Indices(Len(cols)), LAMBDA j : j > 1 /\ prof_qty(cols, nums, j))

\* sub[keep] with the kept quantity columns as numbers, NaN as 0, then the row filter
prof_select(cols, rows, nums, keep) ==
  Table([k \in 1..Len(keep) |-> cols[keep[k]]],
        SelectSeq([i \in 1..Len(rows) |-> [k \in 1..Len(keep) |->
                     IF k = 1 THEN rows[i][1] ELSE ZeroIfNaN(nums[i][keep[k]])]],
                  LAMBDA r : /\ Strip(Str(r[1])) # s_empty
                             /\ ~StartsWith(Lower(Str(r[1])), s_total_geral)))

prof_rows(cols, rows, nums) == prof_select(cols, rows, nums, prof_keep(cols, nums))

prof_table(cols, rows) ==
  IF Count(cols, s_Profissao) > 1
  THEN Raise("AttributeError")                              \* sub["Profissao"] is a DataFrame
  ELSE prof_rows(cols, rows, prof_nums(rows))

\* sub = df_raw.iloc[header_row:end]; its first row becomes the header
prof_slice(g, header_row, end) ==
  IF header_row > Len(g) \/ end - 1 - header_row < 1 THEN EmptyDataFrame    \* len(sub) < 2
  ELSE prof_table(pivot_columns(g[header_row], s_Profissao),
                  FillRows(SubSeq(g, header_row + 1, end - 1)))

prof_header(g, header_row) ==
  prof_slice(g, header_row, prof_end(g, prof_data_start(g, header_row + 1)))

\* a missing title reported as an error
prof_from_raising(g, start) ==
  IF start = 0 THEN Raise("KeyError") ELSE prof_header(g, prof_header_row(g, start))

prof_from(g, start) ==
  IF start = 0 THEN EmptyDataFrame ELSE prof_header(g, prof_header_row(g, start))

extract_profissoes_por_canal(g) ==
  IF IsEmpty(g) THEN EmptyDataFrame
  ELSE prof_from(g, _first_match_contains(Col0(g), s_profissoes))

(*************************** extract_kv_metrics ****************************)
None == <<"None">>
KvScanLimit == 200

NoneIfNaN(v) == IF v = NaN THEN None ELSE v

s_inf == <<"i","n","f">>
s_infinity == <<"i","n","f","i","n","i","t","y">>
Inf(neg) == <<"INF", IF neg THEN -1 ELSE 1>>

\* the literal without its sign, in lower case
float_word(t) ==
  Lower(IF t # << >> /\ Head(t) \in {"-", "+"} THEN Tail(t) ELSE t)

\* float(txt) inside the try: the words nan, inf and infinity are float literals,
\* any other text that is no decimal literal raises and gives None
to_number_float(t) ==
  IF float_word(t) = s_nan THEN NaN
  ELSE IF float_word(t) \in {s_inf, s_infinity} THEN Inf(t # << >> /\ Head(t) = "-")
  ELSE NoneIfNaN(ParseFloat(t))

\* the separators read the other way round: "." kept as the decimal point and ","
\* dropped
to_number_text_us(txt) ==
  IF txt = s_empty \/ Lower(txt) = s_nan THEN None
  ELSE to_number_float(Strip(Replace(Replace(Replace(txt,
         s_RS, s_empty), s_pct, s_empty), s_comma, s_empty)))

\* the number of a trimmed text
to_number_text(txt) ==
  IF txt = s_empty \/ Lower(txt) = s_nan THEN None
  ELSE to_number_float(Strip(Replace(Replace(Replace(Replace(txt,
         s_RS, s_empty), s_pct, s_empty), s_dot, s_empty), s_comma, s_dot)))

\* None for s is None, str(s) otherwise
number_text(c) == IF c = None THEN s_empty ELSE Strip(Str(c))

\* 'R$ 140.000,00', '3.456,7%', '9.000' -> number; empty or unparsable -> None
_to_number_pt(c) == to_number_text(number_text(c))

\* the while loop: the row where the block ends
RECURSIVE kv_end(_, _, _)
kv_end(g, start, end) ==
  IF end > Len(g) THEN end
  ELSE IF StartsWith(Lower(Strip(Str(g[end][1]))), s_profissoes) THEN end
  ELSE IF end - start > KvScanLimit THEN end
  ELSE kv_end(g, start, end + 1)

\* cols_map[k]: the last header column whose trimmed lower-case name is k, 0 when none
kv_col(header, k) == LastOf({j \in 1..Len(header) : Lower(Strip(Str(header[j]))) = k})

\* the column of the field names
kv_key_col(header) == IF kv_col(header, s_campo) # 0 THEN kv_col(header, s_campo) ELSE 1

\* the column of the values
kv_val_col(header) ==
  IF kv_col(header, s_valor_atual) # 0 THEN kv_col(header, s_valor_atual)
  ELSE IF kv_col(header, s_valor_atual_us) # 0 THEN kv_col(header, s_valor_atual_us)
  ELSE IF kv_col(header, s_valor) # 0 THEN kv_col(header, s_valor)
  ELSE IF Len(header) > 2 THEN 3 ELSE IF Len(header) > 1 THEN 2 ELSE 1

\* metrics.setdefault(key, value)
DictPutFirst(m, k, v) == [x \in (DOMAIN m) \cup {k} |-> IF x \in DOMAIN m THEN m[x] ELSE v]

\* metrics[key] = value
DictPut(m, k, v) == [x \in (DOMAIN m) \cup {k} |-> IF x = k THEN v ELSE m[x]]

\* key = _strip_accents_lower(key_raw).replace(" ", "_")
kv_key(key_raw) == Replace(_strip_accents_lower(key_raw), s_space, s_underscore)

\* val_num if val_num is not None else str(val_raw).strip()
kv_value(val_raw, val_num) == IF val_num # None THEN val_num ELSE Strip(Str(val_raw))

\* one iteration of the loop over the rows of the block
kv_step(metrics, key_raw, val_raw) ==
  IF key_raw = s_empty \/ StartsWith(Lower(key_raw), s_profissoes) THEN metrics
  ELSE DictPut(metrics, kv_key(key_raw), kv_value(val_raw, _to_number_pt(val_raw)))

\* the loop over the rows of the block, top to bottom
RECURSIVE kv_fold(_, _, _, _, _)
kv_fold(body, i, ck, cv, metrics) ==
  IF i > Len(body) THEN metrics
  ELSE kv_fold(body, i + 1, ck, cv,
               kv_step(metrics, Strip(Str(body[i][ck])), body[i][cv]))

EmptyDict == [x \in {} |-> None]

kv_block(g, start, end) ==
  IF end - start < 2 THEN EmptyDict
  ELSE kv_fold(SubSeq(g, start + 1, end - 1), 1,
               kv_key_col(g[start]), kv_val_col(g[start]), EmptyDict)

kv_from(g, start) ==
  IF start = 0 THEN EmptyDict ELSE kv_block(g, start, kv_end(g, start, start + 1))

\* start = _first_eq(...) or _first_match_contains(...)
kv_start(eq, g) == IF eq # 0 THEN eq ELSE _first_match_contains(Col0(g), s_campo)

\* the metrics of a grid whose header row names each column once
extract_kv_metrics(g) ==
  IF IsEmpty(g) THEN EmptyDict
  ELSE kv_from(g, kv_start(_first_eq(Col0(g), s_CAMPO), g))

(************************** utils.py: mode selector **************************)
u_uf == <<"u","f">>
u_est == <<"e","s","t">>
u_regiao == <<"r","e","g","i","a","o">>
u_regiao_acc == <<"r","e","g","i","a~","o">>
u_canal_de_aquisicao == <<"c","a","n","a","l","_","d","e","_","a","q","u","i","s","i","c","a","o">>
u_canal == <<"c","a","n","a","l">>
u_profissao_acc == <<"p","r","o","f","i","s","s","a~","o">>
u_profissao_sp == <<"p","r","o","f","i","s","s","a","o"," ">>
u_profissao == <<"p","r","o","f","i","s","s","a","o">>
u_qtde_vendas == <<"q","t","d","e","_","v","e","n","d","a","s">>
u_vendas == <<"v","e","n","d","a","s">>
u_ticket == <<"t","i","c","k","e","t">>
u_dt == <<"d","t">>
u_data == <<"d","a","t","a">>
u_mes == <<"m","e","s">>
u_estado == <<"e","s","t","a","d","o">>

COLUMN_ALIAS ==
  (u_uf :> u_estado) @@ (u_est :> u_estado) @@ (u_regiao :> u_regiao)
    @@ (u_regiao_acc :> u_regiao) @@ (u_canal_de_aquisicao :> u_canal)
    @@ (u_profissao_acc :> u_profissao) @@ (u_profissao_sp :> u_profissao)
    @@ (u_qtde_vendas :> u_vendas) @@ (u_ticket :> s_valor) @@ (u_dt :> u_data)
    @@ (u_mes :> u_mes)

\* the replacement table of _slug_pt, one character at a time
SlugCh(ch) ==
  CASE ch = "c," -> "c" [] ch = "a~" -> "a" [] ch = "e'" -> "e" [] OTHER -> ch

slug_rep(s) == [i \in 1..Len(s) |-> SlugCh(s[i])]

\* strip, lower, accents replaced, spaces turned into "_"
_slug_pt(c) == Replace(slug_rep(Lower(Strip(Str(c)))), s_space, s_underscore)

\* COLUMN_ALIAS.get(key, key)
alias_of(key) == IF key \in DOMAIN COLUMN_ALIAS THEN COLUMN_ALIAS[key] ELSE key

\* a table as utils.py reads it with a header: its column names and its number
\* of data rows; NoSource when the variable that names it is not set
Frame(cols, n) == [kind |-> "table", columns |-> cols, nrows |-> n, exc |-> "none"]
NoSource == [kind |-> "none", columns |-> << >>, nrows |-> 0, exc |-> "none"]
FrameError(e) == [kind |-> "error", columns |-> << >>, nrows |-> 0, exc |-> e]

\* DataFrame.empty: no row or no column
frame_empty(df) == df.nrows = 0 \/ df.columns = << >>

\* df.rename(columns=rename), then pd.to_datetime(df["data"]): with two columns
\* named "data" the selection is a DataFrame and to_datetime raises
normalize_renamed(cols, n) ==
  IF Count(cols, u_data) > 1 THEN FrameError("ValueError") ELSE Frame(cols, n)

_normalize_columns(df) ==
  IF frame_empty(df) THEN df
  ELSE normalize_renamed([j \in 1..Len(df.columns) |-> alias_of(_slug_pt(df.columns[j]))],
                         df.nrows)

\* None when GOOGLE_SHEET_CSV_URL is not set
_read_csv_url_if_any(c) == IF c.kind = "none" THEN c ELSE _normalize_columns(c)

_read_first_sheet_bytes(x) == _normalize_columns(x)

Range(seq) == {seq[i] : i \in 1..Len(seq)}

\* at least one dimension name and at least one metric name
is_long_any(cols) ==
  /\ {u_estado, u_regiao, u_canal, u_profissao} \cap Range(cols) # {}
  /\ (s_valor \in Range(cols) \/ u_vendas \in Range(cols))

\* has_min and has_metric
is_long(cols) ==
  /\ {u_estado, u_canal, u_profissao} \subseteq Range(cols)
  /\ (s_valor \in Range(cols) \/ u_vendas \in Range(cols))

Mode(m, from) == [kind |-> "mode", mode |-> m, from |-> from, exc |-> "none"]
ModeError(e) == [kind |-> "error", mode |-> "none", from |-> "none", exc |-> e]

\* the try block around the header read of the first sheet, then the block parser
load_first_sheet(df_try) ==
  IF df_try.kind = "table" /\ is_long(df_try.columns) THEN Mode("long", "xlsx")
  ELSE Mode("blocks", "xlsx")

\* no src argument and no DATA_XLSX_PATH: RuntimeError
load_xlsx(x) ==
  IF x.kind = "none" THEN ModeError("RuntimeError")
  ELSE load_first_sheet(_read_first_sheet_bytes(x))

load_csv(df_long, x) ==
  IF df_long.kind = "error" THEN ModeError(df_long.exc)
  ELSE IF df_long.kind = "table" /\ ~frame_empty(df_long) /\ is_long(df_long.columns)
       THEN Mode("long", "csv")
  ELSE load_xlsx(x)

load_inputs_dashboard(c, x) == load_csv(_read_csv_url_if_any(c), x)

(****************************** app.py: cache *******************************)
\* what the configured source serves: a grid, or nothing when it cannot be read
Up(g) == [up |-> TRUE, grid |-> g]
Down == [up |-> FALSE, grid |-> << >>]

\* (df, mode) with GOOGLE_SHEET_CSV_URL set and no DATA_XLSX_PATH; df is the grid
\* read, or None
_resolve_source(s) ==
  IF s.up THEN [some |-> TRUE, grid |-> s.grid, mode |-> "google-csv"]
  ELSE [some |-> FALSE, grid |-> << >>, mode |-> "none"]

\* the grid of the frame load_dataframe returns: pd.DataFrame() when df is None
load_dataframe(s) == IF _resolve_source(s).some THEN _resolve_source(s).grid ELSE << >>

\* None as a frame reference and as a time
NoFrame == 0
NoTime == -1

EmptyCache == [df |-> NoFrame, loaded_at |-> NoTime, mode |-> "None"]

\* a test that takes an entry for expired as soon as its age reaches the threshold
cache_stale_at(cache, now, ttl) ==
  \/ cache.df = NoFrame
  \/ cache.loaded_at = NoTime
  \/ now - cache.loaded_at >= ttl

\* the test at the top of get_data
cache_stale(cache, now, ttl) ==
  \/ cache.df = NoFrame
  \/ cache.loaded_at = NoTime
  \/ now - cache.loaded_at > ttl

\* a frame object whose first row an extractor has consumed
df_raw_consumed(g) == IF g = << >> THEN g ELSE Tail(g)

\* a frame object an extractor has filled in place: fillna("") on the frame itself
df_raw_filled(g) == FillRows(g)

\* the grid a frame object holds once an extractor has run on it: the extractors
\* slice the frame and work on the copy that reset_index returns
df_raw_after(g) == g

\* the extractor a request runs on the frame get_data returned
run_extractor(op, g) ==
  CASE op = "vendas"     -> extract_vendas_realizadas(g)
    [] op = "projecao"   -> extract_projecao(g)
    [] op = "profissoes" -> extract_profissoes_por_canal(g)
    [] op = "estado"     -> extract_estado_profissao(g)
    [] op = "regiao"     -> extract_regiao_profissao(g)
    [] op = "kv"         -> extract_kv_metrics(g)

(***************************** _download_to_bytes *****************************)
\* None where an exception is expected: last_err = None
NoError == "None"

\* no call of _download_to_bytes is in progress
NoDownload ==
  [pc |-> "idle", max_attempts |-> 0, i |-> 0, last_err |-> NoError, wait |-> 0,
   gets |-> << >>, slept |-> << >>, result |-> None, exc |-> NoError]

\* 2 ** i
RECURSIVE Pow2(_)
Pow2(i) == IF i = 0 THEN 1 ELSE 2 * Pow2(i - 1)

\* range(1, max_attempts + 1) with one more turn
in_range_plus_one(i, max_attempts) == i <= max_attempts + 1

\* range(1, max_attempts + 1) still has the value i
in_range(i, max_attempts) == i <= max_attempts

\* what requests.get does: it returns a response, or raises
Response(status, content) == [kind |-> "response", status |-> status, content |-> content]
GetRaises(e) == [kind |-> "raises", exc |-> e]

\* r.raise_for_status(): the exception it raises, if any
raise_for_status(r) == IF r.status >= 400 THEN "HTTPError" ELSE NoError

\* the exception the try block ends with, if any
try_error(o) == IF o.kind = "raises" THEN o.exc ELSE raise_for_status(o)

\* the call: the locals before the first turn of the loop
download_call(max_attempts) ==
  [NoDownload EXCEPT !.pc = "loop", !.max_attempts = max_attempts, !.i = 1]

\* the try block on outcome o of requests.get: return r.content, or the handler up
\* to time.sleep
download_try(d, o) ==
  IF try_error(o) = NoError
  THEN [d EXCEPT !.pc = "returned", !.result = o.content, !.gets = Append(d.gets, o)]
  ELSE [d EXCEPT !.pc = "sleep", !.last_err = try_error(o), !.wait = Pow2(d.i),
                 !.gets = Append(d.gets, o)]

\* time.sleep(wait) returns; the loop takes its next value
download_slept(d) ==
  [d EXCEPT !.pc = "loop", !.slept = Append(d.slept, d.wait), !.i = d.i + 1]

\* raise last_err; raising None is a TypeError
download_raise(d) ==
  [d EXCEPT !.pc = "raised",
            !.exc = IF d.last_err = NoError THEN "TypeError" ELSE d.last_err]

(***************************** bounded inputs ******************************)
t_Total == <<"T","o","t","a","l">>
t_TOTAL_sp == <<" ","T","O","T","A","L">>
t_date == <<"0","5","/","0","1","/","2","0","2","4">>
t_money == <<"R","$"," ","1",".","2","3","4",",","5","6">>
t_300 == <<"3","0","0">>
t_7 == <<"7">>
t_x == <<"x">>
t_VENDAS == <<" ","V","e","n","d","a","s","_","R","e","a","l","i","z","a","d","a","s">>

\* all grids of 1..n rows drawn from a set of rows of equal width
GridsOf(rowset, n) == UNION {[1..k -> rowset] : k \in 1..n}

MaxRowsVendas == 4

\* rows of a two-column sheet around the vendas_realizadas section
RowsVendas ==
  { <<t_VENDAS, NaN>>,                       \* the section title, as typed
    <<s_Data, s_valor_liquido>>,             \* a header row
    <<s_valor_liquido, s_valor_liquido>>,    \* a header row with a repeated name
    <<t_date, t_money>>,                     \* a sale
    <<t_Total, t_300>>,                      \* the Total row
    <<t_TOTAL_sp, NaN>>,                     \* a label that starts with total once trimmed
    <<NaN, NaN>>,                            \* label and adjacent cell empty
    <<NaN, t_7>> }                           \* label empty, adjacent cell not
RowsVendasDup == RowsVendas \cup { <<t_x, t_x>> }   \* and a header row that repeats a plain name

t_PROJ == <<"p","r","o","g","e","c","a","o","_","d","e","_","r","e","s","u","l","t","a","d","o","s">>
t_Leads == <<"L","e","a","d","s">>

MaxRowsProj == 6

\* rows of a two-column sheet around the progecao_de_resultados section
RowsProj ==
  { <<t_PROJ, NaN>>,                         \* the section title
    <<s_Metrica, s_performance_real>>,       \* a header row
    <<t_x, t_x>>,                            \* a header row with a repeated name
    <<t_Leads, t_7>>,                        \* a data row
    <<NaN, NaN>> }                           \* a fully-blank row

t_ESTADO == <<"E","S","T","A","D","O"," ","X"," ","P","R","O","F","I","S","S","A~","O">>
t_REGIAO == <<"R","E","G","I","A~","O"," ","P","O","R"," ","P","R","O","F","I","S","S","A~","O">>
t_PROF == <<"P","R","O","F","I","S","S","O","E","S">>
t_UF == <<"U","F">>
t_SP == <<"S","P">>
t_1 == <<"1">>
t_2 == <<"2">>

\* rows of a three-column sheet around the pivot sections
RowsPivot ==
  { <<t_ESTADO, NaN, NaN>>,                  \* the three section titles
    <<t_REGIAO, NaN, NaN>>,
    <<t_PROF, NaN, NaN>>,
    <<t_UF, t_Total, t_Total>>,              \* a header row with a repeated name
    <<t_UF, s_Estado, s_Regiao>>,            \* a header row that names the dimensions
    <<t_SP, t_1, t_2>>,                      \* a data row
    <<NaN, NaN, NaN>> }                      \* a fully-blank row

t_CPL == <<"C","P","L"," ","M","e'","d","i","o">>
t_cpl2 == <<"c","p","l"," ","m","e","d","i","o">>
t_ROAS == <<"R","O","A","S">>
t_VALOR_ATUAL == <<"V","A","L","O","R"," ","A","T","U","A","L">>
t_DESC == <<"D","E","S","C","R","I","C,","A~","O">>
t_12_5 == <<"1","2",",","5">>
t_abc == <<"a","b","c">>

MaxRowsKv == 4

\* rows of a three-column sheet around the CAMPO block
RowsKv ==
  { <<s_CAMPO, t_DESC, t_VALOR_ATUAL>>,      \* the header of the block
    <<t_CPL, NaN, t_12_5>>,                  \* two spellings of one field
    <<t_cpl2, NaN, t_money>>,
    <<t_ROAS, NaN, t_abc>>,                  \* a value that is no number
    <<t_PROF, NaN, NaN>>,                    \* the title that ends the block
    <<NaN, NaN, NaN>> }                      \* a fully-blank row

t_YouTube == <<"Y","o","u","T","u","b","e">>
t_Medico == <<"M","e'","d","i","c","o">>
t_3 == <<"3">>

MaxRowsProfissoes == 4

\* rows of a four-column sheet around the PROFISSOES section
RowsProfissoes ==
  { <<t_PROF, NaN, NaN, NaN>>,               \* the section title
    <<s_Profissao, t_YouTube, t_Total, t_x>>,        \* a header row that names two channels
    <<s_Profissao, t_YouTube, t_YouTube, t_Total>>,  \* a header row that names three, one twice
    <<t_x, t_x, t_x, t_x>>,                  \* a row of notes
    <<t_Medico, t_1, t_2, t_3>>,             \* a data row
    <<NaN, NaN, NaN, NaN>> }                 \* a fully-blank row

\* rows of a one-column sheet
RowsOne == { <<t_VENDAS>>, <<t_x>>, <<NaN>> }

MaxRowsAll == 3

\* the sheets of the extraction specification: every family, up to MaxRowsAll rows
GridsAll ==
  GridsOf(RowsVendasDup, MaxRowsAll) \cup GridsOf(RowsProj, MaxRowsAll)
    \cup GridsOf(RowsPivot, MaxRowsAll) \cup GridsOf(RowsKv, MaxRowsAll)
    \cup GridsOf(RowsOne, MaxRowsAll) \cup GridsOf(RowsProfissoes, MaxRowsAll)

t_Total_2 == <<"T","o","t","a","l","_","2">>
t_sp_Total == <<" ","T","o","t","a","l">>
t_col_2 == <<"c","o","l","_","2">>

MaxColumns == 4

\* header cells handed to _dedupe_columns
HeaderCells == {s_Estado, t_Total, t_Total_2, t_sp_Total, s_col, t_col_2, s_empty, NaN}
Headers == UNION {[1..k -> HeaderCells] : k \in 0..MaxColumns}

h_Profissao == <<" ","P","r","o","f","i","s","s","a~","o">>
h_Ticket == <<"T","i","c","k","e","t">>
h_Regiao == <<"R","e","g","i","a~","o">>

\* header names as pandas delivers them (every name once), in sheet order
LongNames ==
  <<t_UF, u_estado, h_Regiao, u_canal, h_Profissao, u_profissao,
    h_Ticket, s_valor, u_vendas, u_dt, s_Data>>

\* the names of a set of positions of LongNames, in order
NamesAt(S) == SelectSeq(LongNames, LAMBDA n : \E i \in S : LongNames[i] = n)

MaxDataRows == 1

\* the tables a source can hold: any choice of the names, or a column of section
\* titles, with 0..MaxDataRows rows under the header
Frames ==
  {Frame(NamesAt(S), n) : S \in SUBSET (1..Len(LongNames)), n \in 0..MaxDataRows}
    \cup {Frame(<<t_PROF>>, n) : n \in 0..MaxDataRows}

\* the CSV tables tried together with a workbook
FramesBoth ==
  { Frame(<<u_estado, u_canal, u_profissao, s_valor>>, 1),
    Frame(<<u_estado, u_canal, u_profissao, s_valor>>, 0),
    Frame(<<u_estado, s_valor>>, 1),
    Frame(<<u_dt, s_Data>>, 1) }

MaxClock == 2
MaxLoads == 2
CACHE_TTL_SECONDS == 1
Requests == {1, 2}

\* the grids the source serves over time
Sheets ==
  { Up(<< <<t_VENDAS, NaN>>, <<s_Data, s_valor_liquido>>, <<t_date, t_money>> >>),
    Up(<< <<s_CAMPO, t_DESC, t_VALOR_ATUAL>>, <<t_CPL, NaN, t_12_5>> >>),
    Down }

\* the extractors the requests run
RequestOps == {"vendas", "kv"}

\* texts of numbers as the sheet writes them: a prefix, groups of digits joined by
\* ".", decimals after ",", a suffix
NumberPrefixes == { s_empty, s_RS, <<"R","$"," ">>, <<" ">> }
NumberGroups == { <<t_1>>, <<<<"1","2">>>>, <<t_1, <<"2","3","4">>>>, <<<<"9">>, <<"0","0","0">>>> }
NumberDecimals == { s_empty, <<"5">>, <<"5","6">>, <<"0","0">> }
NumberSuffixes == { s_empty, s_pct, <<" ">> }

RECURSIVE JoinGroups(_, _)
JoinGroups(groups, sep) ==
  IF Len(groups) = 1 THEN Head(groups)
  ELSE Head(groups) \o sep \o JoinGroups(Tail(groups), sep)

NumberText(p, g, d, x) ==
  p \o JoinGroups(g, s_dot) \o (IF d = s_empty THEN s_empty ELSE s_comma \o d) \o x

MaxOtherLen == 2

\* the characters of the other texts
OtherChars == {"n", "a", "x", "-", "1", ",", ".", "%", " "}

\* cells that hold a number text, any short text, a word of the float syntax, or
\* nothing
NumberCells ==
  {NumberText(p, g, d, x) : p \in NumberPrefixes, g \in NumberGroups,
                            d \in NumberDecimals, x \in NumberSuffixes}
    \cup UNION {[1..k -> OtherChars] : k \in 0..MaxOtherLen}
    \cup { s_nan, <<" ","N","a","N"," ">>, <<"n","a","n","%">>, t_abc, NaN, None }

MaxRowsPivot == 5

\* rows of a three-column sheet that holds the two pivot tables one after the other
RowsPivotSheet ==
  { <<t_ESTADO, NaN, NaN>>,                  \* the two section titles
    <<t_REGIAO, NaN, NaN>>,
    <<s_regiao_por_profissao, NaN, NaN>>,    \* the second title typed without accents
    <<t_UF, t_Total, t_Total>>,              \* a header row with a repeated name
    <<t_UF, s_Estado, s_Regiao>>,            \* a header row that names the dimensions
    <<t_SP, t_1, t_2>>,                      \* a data row
    <<NaN, t_1, t_2>>,                       \* a data row without a label
    <<NaN, NaN, NaN>> }                      \* a fully-blank row

\* the calls of _download_to_bytes: max_attempts, and what a request can bring
MaxAttempts == 3
b_csv == <<"a", ",", "b">>
b_html == <<"<", ">">>
Contents == {b_csv, s_empty}
GetOutcomes ==
  {Response(200, c) : c \in Contents}
    \cup {Response(404, b_html), Response(500, b_html)}
    \cup {GetRaises("ConnectionError"), GetRaises("Timeout")}

(*********************** utils.py: the sections of the sheet ***********************)
\* the titles in column A that open a block, and the key of each block
SECTION_TOKENS ==
  t_PROF :> "tbl_prof_canal" @@ t_ESTADO :> "tbl_estado_prof" @@
  t_REGIAO :> "tbl_regiao_prof" @@ s_vendas_realizadas :> "vendas" @@
  s_progecao_de_resultados :> "projecao_resultados"

SectionKeys == {SECTION_TOKENS[t] : t \in DOMAIN SECTION_TOKENS}

\* sr.isna().all() or (sr.astype(str).str.strip() == "").all()
_is_blank_row(sr) ==
  \/ RowIsNa(sr)
  \/ \A j \in 1..Len(sr) : Strip(Str(sr[j])) = s_empty

\* str(raw.iloc[i, 0]).strip()
a_val(raw, i) == Strip(Str(raw[i][1]))

is_section(raw, i) == a_val(raw, i) \in DOMAIN SECTION_TOKENS

\* a key that holds no table, the dict of the blocks, and an exception that leaves
\* the function
NoBlock == [kind |-> "none", columns |-> << >>, rows |-> << >>, exc |-> "none"]
Blocks(f) == [kind |-> "blocks", blocks |-> f, exc |-> "none"]
BlocksError(e) == [kind |-> "error", blocks |-> [k \in SectionKeys |-> NoBlock], exc |-> e]

\* the column "data" of the rows through pd.to_datetime(errors="coerce")
sec_dates(cols, rows) ==
  [i \in 1..Len(rows) |->
     [j \in 1..Len(rows[i]) |-> IF cols[j] = u_data THEN ToDatetime(rows[i][j])
                                ELSE rows[i][j]]]

\* _normalize_columns on the frame of a block, which has rows: the names go
\* through _slug_pt and COLUMN_ALIAS; two columns named "data" make to_datetime raise
sec_normalize(cols, rows) ==
  IF Count(cols, u_data) > 1 THEN Raise("ValueError")
  ELSE Table(cols, sec_dates(cols, rows))

\* pd.DataFrame(rows, columns=header), normalised: header row h, data rows h+1..j-1
sec_frame(raw, h, j) ==
  sec_normalize([c \in 1..Len(raw[h]) |-> alias_of(_slug_pt(raw[h][c]))],
                SubSeq(raw, h + 1, j - 1))

RECURSIVE sec_header_row(_, _)
\* the first row from h on that is not blank; nrows + 1 when there is none
sec_header_row(raw, h) ==
  IF h <= Len(raw) /\ _is_blank_row(raw[h]) THEN sec_header_row(raw, h + 1) ELSE h

RECURSIVE sec_data_end(_, _)
\* the first row from j on that is a title or blank; nrows + 1 when there is none
sec_data_end(raw, j) ==
  IF j <= Len(raw) /\ ~(is_section(raw, j) \/ _is_blank_row(raw[j]))
  THEN sec_data_end(raw, j + 1) ELSE j

RECURSIVE sec_scan(_, _, _)
RECURSIVE sec_title(_, _, _, _)
RECURSIVE sec_rows(_, _, _, _, _)
RECURSIVE sec_put(_, _, _, _, _)

\* blocks[block_key] = df, unless _normalize_columns raised
sec_put(raw, i, df, j, blocks) ==
  IF df.kind = "error" THEN BlocksError(df.exc)
  ELSE sec_scan(raw, j,
                [blocks EXCEPT ![SECTION_TOKENS[a_val(raw, i)]] = df])

\* if rows: the block is stored; i = j, the scan goes on at the row that ended it
sec_rows(raw, i, h, j, blocks) ==
  IF j = h + 1 THEN sec_scan(raw, j, blocks)
  ELSE sec_put(raw, i, sec_frame(raw, h, j), j, blocks)

\* the title at row i with its header row h; no header row ends the scan
sec_title(raw, i, h, blocks) ==
  IF h > Len(raw) THEN Blocks(blocks)
  ELSE sec_rows(raw, i, h, sec_data_end(raw, h + 1), blocks)

\* while i < nrows
sec_scan(raw, i, blocks) ==
  IF i > Len(raw) THEN Blocks(blocks)
  ELSE IF is_section(raw, i) THEN sec_title(raw, i, sec_header_row(raw, i + 1), blocks)
  ELSE sec_scan(raw, i + 1, blocks)

_extract_sections_after_kv(raw) == sec_scan(raw, 1, [k \in SectionKeys |-> NoBlock])

MaxRowsSections == 5

\* rows of a two-column sheet of titled sections
RowsSections ==
  { <<t_PROF, NaN>>,                         \* two section titles
    <<s_vendas_realizadas, NaN>>,
    <<t_UF, t_Total>>,                       \* a header row
    <<u_dt, s_Data>>,                        \* a header row that names the date twice
    <<t_SP, t_1>>,                           \* a data row
    <<NaN, NaN>> }                           \* a fully-blank row

(************************ utils.py: the CAMPO block of the sheet ************************)
KvHeaderLimit == 50

\* raw.iloc[i].astype(str).str.strip().tolist()
row_vals(sr) == {Strip(Str(sr[j])) : j \in 1..Len(sr)}

\* the first of the top rows that holds both "CAMPO" and "VALOR ATUAL"; 0 when none
kvb_header_row(raw) ==
  FirstOf({i \in 1..Len(raw) : /\ i <= KvHeaderLimit
                               /\ s_CAMPO \in row_vals(raw[i])
                               /\ t_VALOR_ATUAL \in row_vals(raw[i])})

RECURSIVE kvb_data_end(_, _)
\* the first row from j on that is a section title or blank; nrows + 1 when none
kvb_data_end(raw, j) ==
  IF j <= Len(raw) /\ ~(is_section(raw, j) \/ _is_blank_row(raw[j]))
  THEN kvb_data_end(raw, j + 1) ELSE j

u_descricao == <<"d","e","s","c","r","i","c","a","o">>
u_celula_ref == <<"c","e","l","u","l","a","_","r","e","f">>
u_tipo == <<"t","i","p","o">>
u_celula == <<"c","e","l","u","l","a">>

\* colmap: the name a header cell is renamed to; other cells keep what they hold
kvb_colname(c) ==
  IF _slug_pt(c) = u_descricao THEN u_descricao
  ELSE IF _slug_pt(c) \in {s_valor_atual_us, s_valor, s_valor_atual_us \o s_underscore}
       THEN s_valor
  ELSE IF _slug_pt(c) \in {u_celula_ref, u_celula_ref \o s_underscore,
                           <<"c","e","l","u","l","a","_","_","r","e","f">>}
       THEN u_celula_ref
  ELSE IF _slug_pt(c) = u_tipo THEN u_tipo
  ELSE IF _slug_pt(c) = u_celula THEN u_celula
  ELSE IF _slug_pt(c) = s_campo THEN s_campo
  ELSE c

\* keep: the useful names, in this order
kvb_useful == <<s_campo, u_descricao, s_valor, u_celula_ref, u_tipo, u_celula>>

RECURSIVE kvb_keep(_, _)
\* df[keep]: the positions of the columns that carry the names from the k-th on
kvb_keep(cols, k) ==
  IF k > Len(kvb_useful) THEN << >>
  ELSE SelectSeq(Indices(Len(cols)), LAMBDA j : cols[j] = kvb_useful[k]) \o kvb_keep(cols, k + 1)

\* df["campo"] trimmed as text, the rows with an empty campo dropped
kvb_rows(cols, keep, data_rows) ==
  SelectSeq([i \in 1..Len(data_rows) |->
               [n \in 1..Len(keep) |-> IF cols[keep[n]] = s_campo
                                       THEN Strip(Str(data_rows[i][keep[n]]))
                                       ELSE data_rows[i][keep[n]]]],
            LAMBDA row : \A n \in 1..Len(keep) : cols[keep[n]] = s_campo => row[n] # s_empty)

\* the frame of the rows under the renamed header; two columns named campo make
\* df["campo"].astype(str).str raise
kvb_frame(cols, keep, data_rows) ==
  IF Count(cols, s_campo) > 1 THEN Raise("AttributeError")
  ELSE Table([n \in 1..Len(keep) |-> cols[keep[n]]], kvb_rows(cols, keep, data_rows))

kvb_table(cols, data_rows) == kvb_frame(cols, kvb_keep(cols, 1), data_rows)

\* the rows header_row+1 .. end-1 under the header; None when there is no row
kvb_block(raw, header_row, end) ==
  IF end = header_row + 1 THEN NoBlock
  ELSE kvb_table([j \in 1..Len(raw[header_row]) |-> kvb_colname(raw[header_row][j])],
                 SubSeq(raw, header_row + 1, end - 1))

kvb_from(raw, header_row) ==
  IF header_row = 0 THEN NoBlock
  ELSE kvb_block(raw, header_row, kvb_data_end(raw, header_row + 1))

_extract_kv_block_from_inputs(raw) ==
  IF IsEmpty(raw) THEN NoBlock ELSE kvb_from(raw, kvb_header_row(raw))

MaxRowsKvBlock == 4

(****************************** state machine ******************************)
NoOut == [op |-> "none", val |-> EmptyDataFrame]
NoReq ==
  [pc |-> "idle", now |-> 0, loaded |-> NoFrame, df |-> NoFrame, op |-> "none",
   val |-> EmptyDataFrame]

\* the values of the variables a specification does not move
ExtractIdle == df_raw = << >>
DedupeIdle == columns = << >>
InputsIdle == csv = NoSource /\ xlsx = NoSource /\ download = NoDownload
CacheIdle ==
  /\ _DF_CACHE = EmptyCache
  /\ app_globals = [LAST_LOADED |-> NoTime, DATA_MODE |-> "None"]
  /\ frames = << >>
  /\ clock = 0
  /\ sheet = Down
  /\ req = [r \in Requests |-> NoReq]
  /\ loads = 0

\* an operation that has not run yet returns val
Returned(op, val) ==
  /\ out.op = "none"
  /\ out' = [op |-> op, val |-> val]
  /\ UNCHANGED <<df_raw, columns, inputs_vars, cache_vars>>

ExtractVendas == Returned("vendas", extract_vendas_realizadas(df_raw))

ExtractProjecao == Returned("projecao", extract_projecao(df_raw))

ExtractProfissoes == Returned("profissoes", extract_profissoes_por_canal(df_raw))

ExtractEstado == Returned("estado", extract_estado_profissao(df_raw))

ExtractRegiao == Returned("regiao", extract_regiao_profissao(df_raw))

ExtractKv == Returned("kv", extract_kv_metrics(df_raw))

\* the extractions of the route /origem-conversao, in its order: a raised error ends
\* the request, so the second extraction runs only when the first returned
origem_then_vendas(profcan, g) ==
  [profcan |-> profcan,
   vendas  |-> IF profcan.kind = "error" THEN Raise("NotRun")
               ELSE extract_vendas_realizadas(g)]

origem_conversao(g) == origem_then_vendas(extract_profissoes_por_canal(g), g)

OrigemConversao == Returned("origem_conversao", origem_conversao(df_raw))

DedupeColumns == Returned("dedupe", _dedupe_columns(columns))

LoadInputs == Returned("load_inputs", load_inputs_dashboard(csv, xlsx))

SectionOps == {"vendas", "projecao", "profissoes", "estado", "regiao"}

\* one extractor on a sheet of the vendas_realizadas family
InitVendas ==
  /\ df_raw \in GridsOf(RowsVendas, MaxRowsVendas) /\ out = NoOut
  /\ DedupeIdle /\ InputsIdle /\ CacheIdle
NextVendas == ExtractVendas
SpecVendas == InitVendas /\ [][NextVendas]_vars

\* one extractor on a sheet of the progecao_de_resultados family
InitProjecao ==
  /\ df_raw \in GridsOf(RowsProj, MaxRowsProj) /\ out = NoOut
  /\ DedupeIdle /\ InputsIdle /\ CacheIdle
NextProjecao == ExtractProjecao
SpecProjecao == InitProjecao /\ [][NextProjecao]_vars

\* the metrics extractor on a sheet of the CAMPO family
InitKv ==
  /\ df_raw \in GridsOf(RowsKv, MaxRowsKv) /\ out = NoOut
  /\ DedupeIdle /\ InputsIdle /\ CacheIdle
NextKv == ExtractKv
SpecKv == InitKv /\ [][NextKv]_vars

\* every extractor, and the route that runs two of them, on every family
InitExtract ==
  /\ df_raw \in GridsAll /\ out = NoOut
  /\ DedupeIdle /\ InputsIdle /\ CacheIdle
NextExtract ==
  \/ ExtractVendas \/ ExtractProjecao \/ ExtractProfissoes
  \/ ExtractEstado \/ ExtractRegiao \/ ExtractKv \/ OrigemConversao
SpecExtract == InitExtract /\ [][NextExtract]_vars

\* _dedupe_columns on every header of up to MaxColumns cells
InitDedupe ==
  /\ columns \in Headers /\ out = NoOut
  /\ ExtractIdle /\ InputsIdle /\ CacheIdle
NextDedupe == DedupeColumns
SpecDedupe == InitDedupe /\ [][NextDedupe]_vars

\* load_inputs_dashboard on a CSV table, on a workbook, and on both
InitInputs ==
  /\ \/ csv = NoSource /\ xlsx \in Frames \cup {NoSource}
     \/ csv \in Frames /\ xlsx = NoSource
     \/ csv \in FramesBoth /\ xlsx \in Frames
  /\ download = NoDownload
  /\ out = NoOut
  /\ ExtractIdle /\ DedupeIdle /\ CacheIdle
NextInputs == LoadInputs
SpecInputs == InitInputs /\ [][NextInputs]_vars

ExtractSections == Returned("sections", _extract_sections_after_kv(df_raw))

\* the block parser of utils.py on a sheet of titled sections
InitSections ==
  /\ df_raw \in GridsOf(RowsSections, MaxRowsSections) /\ out = NoOut
  /\ DedupeIdle /\ InputsIdle /\ CacheIdle
NextSections == ExtractSections
SpecSections == InitSections /\ [][NextSections]_vars

ToNumber == Returned("to_number", _to_number_pt(df_raw[1][1]))

\* _to_number_pt on one cell
InitNumber ==
  /\ df_raw \in {<< <<c>> >> : c \in NumberCells} /\ out = NoOut
  /\ DedupeIdle /\ InputsIdle /\ CacheIdle
NextNumber == ToNumber
SpecNumber == InitNumber /\ [][NextNumber]_vars

\* the two pivot extractors on one sheet
InitPivot ==
  /\ df_raw \in GridsOf(RowsPivotSheet, MaxRowsPivot) /\ out = NoOut
  /\ DedupeIdle /\ InputsIdle /\ CacheIdle
NextPivot == ExtractEstado \/ ExtractRegiao
SpecPivot == InitPivot /\ [][NextPivot]_vars

ExtractKvBlock == Returned("kv_block", _extract_kv_block_from_inputs(df_raw))

\* the two readers of the CAMPO block on one sheet
InitKvBlock ==
  /\ df_raw \in GridsOf(RowsKv, MaxRowsKvBlock) /\ out = NoOut
  /\ DedupeIdle /\ InputsIdle /\ CacheIdle
NextKvBlock == ExtractKv \/ ExtractKvBlock
SpecKvBlock == InitKvBlock /\ [][NextKvBlock]_vars

\* the profissoes extractor on a sheet of its family
InitProfissoes ==
  /\ df_raw \in GridsOf(RowsProfissoes, MaxRowsProfissoes) /\ out = NoOut
  /\ DedupeIdle /\ InputsIdle /\ CacheIdle
NextProfissoes == ExtractProfissoes
SpecProfissoes == InitProfissoes /\ [][NextProfissoes]_vars

\* _download_to_bytes: one turn of the loop calls requests.get
DownloadGet ==
  /\ download.pc = "loop" /\ in_range(download.i, download.max_attempts)
  /\ \E o \in GetOutcomes : download' = download_try(download, o)
  /\ UNCHANGED <<extract_vars, columns, csv, xlsx, cache_vars>>

\* the handler's time.sleep returns
DownloadSleep ==
  /\ download.pc = "sleep"
  /\ download' = download_slept(download)
  /\ UNCHANGED <<extract_vars, columns, csv, xlsx, cache_vars>>

\* the loop is over: raise last_err
DownloadRaise ==
  /\ download.pc = "loop" /\ ~in_range(download.i, download.max_attempts)
  /\ download' = download_raise(download)
  /\ UNCHANGED <<extract_vars, columns, csv, xlsx, cache_vars>>

\* a call of _download_to_bytes with some max_attempts; the call runs to its end:
\* requests.get returns or raises within its timeout, and time.sleep returns
InitDownload ==
  /\ \E n \in 0..MaxAttempts : download = download_call(n)
  /\ out = NoOut /\ csv = NoSource /\ xlsx = NoSource
  /\ ExtractIdle /\ DedupeIdle /\ CacheIdle
NextDownload == DownloadGet \/ DownloadSleep \/ DownloadRaise
SpecDownload == InitDownload /\ [][NextDownload]_vars /\ WF_vars(NextDownload)

(*************************** requests and get_data ***************************)
\* get_data, first half: now is read, the cache is tested; a stale cache sends the
\* request into load_dataframe, a fresh one returns the cached frame.  req[r].now is
\* the local variable now while the request still needs it
GetData(r) ==
  /\ req[r].pc = "idle"
  /\ IF cache_stale(_DF_CACHE, clock, CACHE_TTL_SECONDS)
     THEN /\ loads < MaxLoads
          /\ req' = [req EXCEPT ![r].pc = "loading", ![r].now = clock]
          /\ loads' = loads + 1
     ELSE /\ req' = [req EXCEPT ![r].pc = "extract", ![r].df = _DF_CACHE.df]
          /\ UNCHANGED loads
  /\ UNCHANGED <<_DF_CACHE, app_globals, frames, clock, sheet>>
  /\ UNCHANGED <<extract_vars, columns, inputs_vars>>

\* load_dataframe returns: the source is read as it is now, the new frame is
\* stored in _DF_CACHE["df"].  req[r].loaded is the frame load_dataframe returned to
\* this request, while the request is inside the reload
LoadReturn(r) ==
  /\ req[r].pc = "loading"
  /\ frames' = Append(frames, load_dataframe(sheet))
  /\ app_globals' = [LAST_LOADED |-> clock, DATA_MODE |-> _resolve_source(sheet).mode]
  /\ _DF_CACHE' = [_DF_CACHE EXCEPT !.df = Len(frames) + 1]
  /\ req' = [req EXCEPT ![r].pc = "stamp", ![r].loaded = Len(frames) + 1]
  /\ UNCHANGED <<clock, sheet, loads>>
  /\ UNCHANGED <<extract_vars, columns, inputs_vars>>

\* get_data, second half: loaded_at and mode are stored, _DF_CACHE["df"] is returned
Stamp(r) ==
  /\ req[r].pc = "stamp"
  /\ _DF_CACHE' = [_DF_CACHE EXCEPT !.loaded_at = req[r].now,
                                    !.mode = app_globals.DATA_MODE]
  /\ req' = [req EXCEPT ![r].pc = "extract", ![r].df = _DF_CACHE.df, ![r].now = 0,
                          ![r].loaded = NoFrame]
  /\ UNCHANGED <<app_globals, frames, clock, sheet, loads>>
  /\ UNCHANGED <<extract_vars, columns, inputs_vars>>

\* the route runs an extractor on the frame it was handed
Extract(r) ==
  /\ req[r].pc = "extract"
  /\ \E op \in RequestOps :
       req' = [req EXCEPT ![r].pc = "done", ![r].op = op,
                          ![r].val = run_extractor(op, frames[req[r].df])]
  /\ frames' = [frames EXCEPT ![req[r].df] = df_raw_after(frames[req[r].df])]
  /\ UNCHANGED <<_DF_CACHE, app_globals, clock, sheet, loads>>
  /\ UNCHANGED <<extract_vars, columns, inputs_vars>>

\* the response is sent; the worker takes the next request
Respond(r) ==
  /\ req[r].pc = "done"
  /\ req' = [req EXCEPT ![r] = NoReq]
  /\ UNCHANGED <<_DF_CACHE, app_globals, frames, clock, sheet, loads>>
  /\ UNCHANGED <<extract_vars, columns, inputs_vars>>

\* time passes
Tick ==
  /\ clock < MaxClock
  /\ clock' = clock + 1
  /\ UNCHANGED <<_DF_CACHE, app_globals, frames, sheet, req, loads>>
  /\ UNCHANGED <<extract_vars, columns, inputs_vars>>

\* the sheet is edited, or the source goes down or comes back
SheetChange ==
  /\ \E s \in Sheets : s # sheet /\ sheet' = s
  /\ UNCHANGED <<_DF_CACHE, app_globals, frames, clock, req, loads>>
  /\ UNCHANGED <<extract_vars, columns, inputs_vars>>

\* the application under concurrent requests
InitCache ==
  /\ _DF_CACHE = EmptyCache
  /\ app_globals = [LAST_LOADED |-> NoTime, DATA_MODE |-> "None"]
  /\ frames = << >>
  /\ clock = 0
  /\ sheet \in Sheets
  /\ req = [r \in Requests |-> NoReq]
  /\ loads = 0
  /\ out = NoOut /\ ExtractIdle /\ DedupeIdle /\ InputsIdle
NextCache ==
  \/ \E r \in Requests : GetData(r)
  \/ \E r \in Requests : LoadReturn(r)
  \/ \E r \in Requests : Stamp(r)
  \/ \E r \in Requests : Extract(r)
  \/ \E r \in Requests : Respond(r)
  \/ Tick
  \/ SheetChange
SpecCache == InitCache /\ [][NextCache]_vars

(********************************* claims **********************************)
\* the cell is empty (nothing was typed in it)
IsBlank(c) == c = NaN

\* the label starts with "total", case-insensitively, once trimmed
IsTotalLabel(c) == c # NaN /\ StartsWith(Lower(Strip(c)), s_total)

\* the row of the first cell of column 0 that is the token, trimmed and
\* compared without case; 0 when there is none
TokenRow(g, token) == FirstOf({i \in 1..Len(g) : g[i][1] # NaN /\ Lower(Strip(g[i][1])) = token})

\* no cell of column 0 holds the token, compared without case or accents
TokenAbsent(g, token) ==
  \A i \in 1..Len(g) : g[i][1] = NaN \/ ~Contains(_strip_accents_lower(g[i][1]), token)

SectionToken(op) ==
  CASE op = "vendas"     -> s_vendas_realizadas
    [] op = "projecao"   -> s_progecao_de_resultados
    [] op = "profissoes" -> s_profissoes
    [] op = "estado"     -> s_estado_x_profissao
    [] op = "regiao"     -> s_regiao_por_profissao

Distinct(seq) == \A i, j \in 1..Len(seq) : i # j => seq[i] # seq[j]

\* the Total-terminated end of the section that starts at row s: the smallest e > s+1
\* whose label starts with "total" or whose label and adjacent cell are both empty
TotalEnd(g, s) ==
  LET stops == {e \in (s + 2)..Len(g) :
                  IsTotalLabel(g[e][1]) \/ (IsBlank(g[e][1]) /\ IsBlank(g[e][2]))}
  IN IF stops = {} THEN Len(g) + 1 ELSE FirstOf(stops)

\* the rows s+2 .. e-1 of the grid under the header of row s+1, converted
VendasRows(g, s, e, val) ==
  /\ val.columns = g[s + 1]
  /\ Len(val.rows) = e - (s + 2)
  /\ \A i \in 1..Len(val.rows) : \A j \in 1..Len(val.columns) :
       val.rows[i][j] = vendas_cell(g[s + 1][j], g[s + 1 + i][j])

\* C1: for every grid with the vendas_realizadas token at row s and a row under it,
\* extract_vendas_realizadas returns a table whose header is row s+1 and whose data rows
\* are exactly the grid rows s+2 .. e-1, e the Total-terminated end; the Total row and
\* what follows are left out.
C1_TotalBoundary ==
  (/\ out.op = "vendas"
   /\ TokenRow(df_raw, s_vendas_realizadas) # 0
   /\ TokenRow(df_raw, s_vendas_realizadas) < Len(df_raw)) =>
    /\ out.val.kind = "table"
    /\ VendasRows(df_raw, TokenRow(df_raw, s_vendas_realizadas),
                  TotalEnd(df_raw, TokenRow(df_raw, s_vendas_realizadas)), out.val)

\* the Total-terminated boundary on every grid on which the extractor returns a table
VendasBoundaryWhenReturned ==
  (/\ out.op = "vendas" /\ out.val.kind = "table"
   /\ TokenRow(df_raw, s_vendas_realizadas) # 0) =>
    VendasRows(df_raw, TokenRow(df_raw, s_vendas_realizadas),
               TotalEnd(df_raw, TokenRow(df_raw, s_vendas_realizadas)), out.val)

\* the double-blank end of the section that starts at row s: the smallest e whose row
\* and the row before it, both under the header, are fully blank; the grid end otherwise
DoubleBlankEnd(g, s) ==
  LET stops == {e \in (s + 3)..Len(g) : RowIsNa(g[e]) /\ RowIsNa(g[e - 1])}
  IN IF stops = {} THEN Len(g) + 1 ELSE FirstOf(stops)

\* the rows of the section that are not fully blank
SectionRows(g, s, e) == {i \in (s + 2)..(e - 1) : ~RowIsNa(g[i])}

\* C2: for every grid with the progecao_de_resultados token at row s and a row under it,
\* extract_projecao returns a table with one row for every not fully blank grid row of
\* s+2 .. e-1, e the second of the first two consecutive fully-blank rows or the grid
\* end: a single blank row does not end the section, and nothing at or after e is in it.
C2_DoubleBlank ==
  (/\ out.op = "projecao"
   /\ TokenRow(df_raw, s_progecao_de_resultados) # 0
   /\ TokenRow(df_raw, s_progecao_de_resultados) < Len(df_raw)) =>
    /\ out.val.kind = "table"
    /\ Len(out.val.rows) =
         Cardinality(SectionRows(df_raw, TokenRow(df_raw, s_progecao_de_resultados),
           DoubleBlankEnd(df_raw, TokenRow(df_raw, s_progecao_de_resultados))))

\* the double-blank boundary on every grid on which the extractor returns a table
ProjecaoBoundaryWhenReturned ==
  (/\ out.op = "projecao" /\ out.val.kind = "table"
   /\ TokenRow(df_raw, s_progecao_de_resultados) # 0) =>
    Len(out.val.rows) =
      Cardinality(SectionRows(df_raw, TokenRow(df_raw, s_progecao_de_resultados),
        DoubleBlankEnd(df_raw, TokenRow(df_raw, s_progecao_de_resultados))))

C4_NeverRaises == out.op \in SectionOps => out.val.kind # "error"

\* the rows of the metrics block that carry a field label
KvLabelled(c) ==
  Strip(Str(c)) # s_empty /\ ~StartsWith(Lower(Strip(Str(c))), s_profissoes)

KvStart(g) == kv_start(_first_eq(Col0(g), s_CAMPO), g)
KvRows(g) ==
  IF IsEmpty(g) \/ KvStart(g) = 0 THEN {}
  ELSE {i \in (KvStart(g) + 1)..(kv_end(g, KvStart(g), KvStart(g) + 1) - 1) :
          KvLabelled(g[i][kv_key_col(g[KvStart(g)])])}
KvKeyAt(g, i) == kv_key(Strip(Str(g[i][kv_key_col(g[KvStart(g)])])))
KvValueAt(g, i) ==
  kv_value(g[i][kv_val_col(g[KvStart(g)])], _to_number_pt(g[i][kv_val_col(g[KvStart(g)])]))

\* C5: the map extract_kv_metrics returns has one entry for every key some labelled row
\* of the block normalises to, and no other; the value of a key is the one derived from
\* the last row, top to bottom, that normalises to it.
C5_KvLastWins ==
  out.op = "kv" =>
    /\ DOMAIN out.val = {KvKeyAt(df_raw, i) : i \in KvRows(df_raw)}
    /\ \A i \in KvRows(df_raw) :
         out.val[KvKeyAt(df_raw, i)] =
           KvValueAt(df_raw, LastOf({j \in KvRows(df_raw) :
                                       KvKeyAt(df_raw, j) = KvKeyAt(df_raw, i)}))

\* two rows of the block normalise to one key and carry different values; the map
\* holds the value of the later one
C5_Witness ==
  /\ out.op = "kv"
  /\ \E i, j \in KvRows(df_raw) :
       /\ i < j
       /\ KvKeyAt(df_raw, i) = KvKeyAt(df_raw, j)
       /\ KvValueAt(df_raw, i) # KvValueAt(df_raw, j)
       /\ j = LastOf({m \in KvRows(df_raw) : KvKeyAt(df_raw, m) = KvKeyAt(df_raw, j)})
       /\ out.val[KvKeyAt(df_raw, j)] = KvValueAt(df_raw, j)

\* base_k
Suffixed(base, k) == base \o s_underscore \o NatStr(k)

\* the names produced for the columns before column i
Earlier(names, i) == {names[m] : m \in 1..(i - 1)}

t_Total_2_2 == <<"T","o","t","a","l","_","2","_","2">>

\* C6 as stated: the list has the length of the header and pairwise distinct names; the
\* first column of each name (trimmed, an empty one read as "col") keeps that name and a
\* later column of the same name gets it with a numeric suffix from 2 up.
C6_FirstKeepsName ==
  out.op = "dedupe" =>
    /\ Len(out.val) = Len(columns)
    /\ Distinct(out.val)
    /\ \A i \in 1..Len(columns) :
         IF \A m \in 1..(i - 1) : dedupe_base(columns[m]) # dedupe_base(columns[i])
         THEN out.val[i] = dedupe_base(columns[i])
         ELSE \E k \in 2..(Len(columns) + 1) :
                out.val[i] = Suffixed(dedupe_base(columns[i]), k)

\* C6: the list has the length of the header and pairwise distinct names; a column keeps
\* its name (trimmed, an empty one read as "col") unless that name was already produced
\* for an earlier column, and then it gets the name with the suffix _k, k the smallest
\* number from 2 up whose suffixed name was not yet produced.
C6_DedupeColumns ==
  out.op = "dedupe" =>
    /\ Len(out.val) = Len(columns)
    /\ Distinct(out.val)
    /\ \A i \in 1..Len(columns) :
         IF dedupe_base(columns[i]) \notin Earlier(out.val, i)
         THEN out.val[i] = dedupe_base(columns[i])
         ELSE \E k \in 2..(Len(columns) + 1) :
                /\ out.val[i] = Suffixed(dedupe_base(columns[i]), k)
                /\ out.val[i] \notin Earlier(out.val, i)
                /\ \A n \in 2..(k - 1) :
                     Suffixed(dedupe_base(columns[i]), n) \in Earlier(out.val, i)

\* a header whose third name is the name the second column was given
C6_Witness ==
  /\ out.op = "dedupe"
  /\ columns = <<t_Total, t_Total, t_Total_2>>
  /\ out.val = <<t_Total, t_Total_2, t_Total_2_2>>

\* C7: every table a section extractor returns has pairwise distinct column names.
C7_DistinctColumns ==
  (out.op \in SectionOps /\ out.val.kind = "table") => Distinct(out.val.columns)

\* the normalised header of a table
NormalisedHeader(df) == {alias_of(_slug_pt(df.columns[j])) : j \in 1..Len(df.columns)}

\* a table with a data row and at most one column that normalises to "data"
WellFormed(df) ==
  /\ df.kind = "table" /\ df.nrows > 0
  /\ Cardinality({j \in 1..Len(df.columns) : alias_of(_slug_pt(df.columns[j])) = u_data}) <= 1

HasAllDimensions(df) == {u_estado, u_canal, u_profissao} \subseteq NormalisedHeader(df)
HasSomeDimension(df) ==
  {u_estado, u_regiao, u_canal, u_profissao} \cap NormalisedHeader(df) # {}
HasSomeMetric(df) == {s_valor, u_vendas} \cap NormalisedHeader(df) # {}

SameFrame(r1, r2) ==
  /\ r1 # r2
  /\ req[r1].pc = "done" /\ req[r2].pc = "done"
  /\ req[r1].op = req[r2].op
  /\ req[r1].df = req[r2].df

C10_OneRebuild == Cardinality({r \in Requests : req[r].pc = "loading"}) <= 1

(************************ claims on the cache and parsing ************************)
\* the slot holds no grid with a time stamp
SlotEmpty == _DF_CACHE.df = NoFrame \/ _DF_CACHE.loaded_at = NoTime

\* the age of the cached entry at the present time
EntryAge == clock - _DF_CACHE.loaded_at

\* request r passes the test of get_data in this step
Calls(r) == req[r].pc = "idle" /\ req'[r].pc # "idle"

\* C11: a get_data call goes to the loader exactly when the slot is empty or the entry
\* is older than CACHE_TTL_SECONDS; any other call gets the cached grid, whose age is
\* at most the threshold, and the loader is not invoked.
C11_TtlCache ==
  [][\A r \in Requests : Calls(r) =>
       IF SlotEmpty \/ EntryAge > CACHE_TTL_SECONDS
       THEN req'[r].pc = "loading" /\ loads' = loads + 1
       ELSE /\ req'[r].pc = "extract"
            /\ req'[r].df = _DF_CACHE.df
            /\ EntryAge <= CACHE_TTL_SECONDS
            /\ loads' = loads /\ frames' = frames /\ _DF_CACHE' = _DF_CACHE]_vars

\* one load has happened, its entry is exactly CACHE_TTL_SECONDS old, and a second
\* request was handed the cached grid
C11_Witness ==
  \E r1, r2 \in Requests :
    /\ r1 # r2
    /\ loads = 1
    /\ req[r1].pc = "done" /\ req[r1].df = _DF_CACHE.df
    /\ req[r2].pc = "extract" /\ req[r2].df = _DF_CACHE.df
    /\ ~SlotEmpty /\ EntryAge = CACHE_TTL_SECONDS

\* C12: with no CSV link, no workbook path and no src argument, load_inputs_dashboard
\* returns a result of mode blocks (one that holds no table) and raises nothing.
C12_SourceUnavailable ==
  (out.op = "load_inputs" /\ csv = NoSource /\ xlsx = NoSource) =>
    out.val.kind = "mode" /\ out.val.mode = "blocks"

\* row i holds a section title in column A
IsTitle(i) == i \in 1..Len(df_raw) /\ is_section(df_raw, i)

\* row i is neither blank nor a title
IsPlainRow(i) ==
  i \in 1..Len(df_raw) /\ ~is_section(df_raw, i) /\ ~_is_blank_row(df_raw[i])

\* the title of row i is followed by a header row and at least one data row, and
\* no other row holds the same title
WellFormedSection(i) ==
  /\ IsTitle(i) /\ IsPlainRow(i + 1) /\ IsPlainRow(i + 2)
  /\ \A k \in 1..Len(df_raw) : k # i => a_val(df_raw, k) # a_val(df_raw, i)

\* the row that ends the data rows of the section of title row i
SectionEnd(i) ==
  IF \E e \in (i + 2)..Len(df_raw) : ~IsPlainRow(e)
  THEN CHOOSE e \in (i + 2)..Len(df_raw) :
         ~IsPlainRow(e) /\ \A k \in (i + 2)..(e - 1) : IsPlainRow(k)
  ELSE Len(df_raw) + 1

\* C13: whatever the other sections look like, every section title that is followed
\* by a header row and at least one data row yields a table under its own key, made
\* of its own data rows.
C13_SectionIndependence ==
  out.op = "sections" =>
    \A i \in 1..Len(df_raw) : WellFormedSection(i) =>
      /\ out.val.kind = "blocks"
      /\ out.val.blocks[SECTION_TOKENS[a_val(df_raw, i)]].kind = "table"
      /\ Len(out.val.blocks[SECTION_TOKENS[a_val(df_raw, i)]].rows) = SectionEnd(i) - (i + 2)
      /\ \A k \in 1..(SectionEnd(i) - (i + 2)) :
           out.val.blocks[SECTION_TOKENS[a_val(df_raw, i)]].rows[k][1] = df_raw[i + 1 + k][1]

\* on sheets where every title is followed by a header row and no header names the
\* date twice, each well-formed section has its table
C13_WhenAllWellFormed ==
  (/\ out.op = "sections"
   /\ \A i \in 1..Len(df_raw) : IsTitle(i) => IsPlainRow(i + 1)
   /\ \A i \in 1..Len(df_raw) : df_raw[i] # <<u_dt, s_Data>>) =>
    \A i \in 1..Len(df_raw) : WellFormedSection(i) =>
      /\ out.val.kind = "blocks"
      /\ out.val.blocks[SECTION_TOKENS[a_val(df_raw, i)]].kind = "table"
      /\ Len(out.val.blocks[SECTION_TOKENS[a_val(df_raw, i)]].rows) = SectionEnd(i) - (i + 2)

\* the cell is the number text made of these parts
IsNumberText(c, p, g, d, x) == c = NumberText(p, g, d, x)

\* the value such a text denotes: the digits of the groups, then the decimals
NumberValue(g, d) == NormNum(NatOf(JoinGroups(g, s_empty) \o d), Len(d))

\* the text has a letter and is not the word nan under symbols
IsUnparsable(c) ==
  /\ c \notin {NaN, None}
  /\ \E i \in 1..Len(c) : c[i] \in {"n", "a", "x", "b", "c", "N"}
  /\ c # <<"n","a","n","%">>

TitleRow(g, title) ==
  FirstOf({i \in 1..Len(g) : Contains(_strip_accents_lower(g[i][1]), title)})

\* nothing, or only spaces, was typed in the label cell
LabelEmpty(c) == c = NaN \/ Strip(c) = s_empty

IsRegiaoTitle(c) == Contains(_strip_accents_lower(c), s_regiao_por_profissao)

\* the next-token end of the section of title row s: the first row under the header
\* whose label is empty or is the title of the next section; the grid end otherwise
NextTokenEnd(g, s) ==
  IF \E e \in (s + 2)..Len(g) : LabelEmpty(g[e][1]) \/ IsRegiaoTitle(g[e][1])
  THEN FirstOf({e \in (s + 2)..Len(g) : LabelEmpty(g[e][1]) \/ IsRegiaoTitle(g[e][1])})
  ELSE Len(g) + 1

\* the table holds one row for each grid row of s+2 .. e-1, with its label
LabelledRows(g, s, e, val) ==
  /\ Len(val.rows) = e - (s + 2)
  /\ \A k \in 1..Len(val.rows) : val.rows[k][1] = g[s + 1 + k][1]

\* the rows the two extractors slice out of the grid: header row to end - 1
EstadoRange(g) ==
  IF TitleRow(g, s_estado_x_profissao) = 0 THEN {}
  ELSE (TitleRow(g, s_estado_x_profissao) + 1)
         ..(estado_end(g, TitleRow(g, s_estado_x_profissao) + 2) - 1)
RegiaoRange(g) ==
  IF TitleRow(g, s_regiao_por_profissao) = 0 THEN {}
  ELSE (TitleRow(g, s_regiao_por_profissao) + 1)
         ..(regiao_end(g, TitleRow(g, s_regiao_por_profissao) + 2) - 1)

\* C15: the table extract_estado_profissao returns holds the rows under its header up to the first row whose
\* label is empty or is the title of the região section (compared without case and
\* accents), or up to the grid end; no title of that section is a row of the table,
\* and the row ranges of the two extractors on one grid do not overlap.
C15_NextTokenBoundary ==
  /\ (/\ out.op = "estado" /\ out.val.kind = "table"
      /\ TitleRow(df_raw, s_estado_x_profissao) # 0) =>
       /\ LabelledRows(df_raw, TitleRow(df_raw, s_estado_x_profissao),
                       NextTokenEnd(df_raw, TitleRow(df_raw, s_estado_x_profissao)), out.val)
       /\ \A k \in 1..Len(out.val.rows) : ~IsRegiaoTitle(out.val.rows[k][1])
  /\ out.op \in {"estado", "regiao"} =>
       (TitleRow(df_raw, s_estado_x_profissao) < TitleRow(df_raw, s_regiao_por_profissao)
          => EstadoRange(df_raw) \cap RegiaoRange(df_raw) = {})

\* the label was typed, and in lower case without its accents it is not the título
IsPlainLabel(c) == c # NaN /\ Strip(c) # s_empty /\ ~IsRegiaoTitle(c)

\* the boundary on the sheets whose região title is typed without accents and whose
\* rows under the Estado header all have a label, when a table is returned
EstadoBoundaryWhenPlain ==
  (/\ out.op = "estado" /\ out.val.kind = "table"
   /\ TitleRow(df_raw, s_estado_x_profissao) # 0
   /\ \A i \in 1..Len(df_raw) :
        i > TitleRow(df_raw, s_estado_x_profissao) + 1 =>
          \/ IsPlainLabel(df_raw[i][1])
          \/ StartsWith(Lower(Strip(Str(df_raw[i][1]))), s_regiao_por_profissao)) =>
    LabelledRows(df_raw, TitleRow(df_raw, s_estado_x_profissao),
                 NextTokenEnd(df_raw, TitleRow(df_raw, s_estado_x_profissao)), out.val)

\* the single-blank end of the section of title row s: the first fully-blank row
\* under the header; the grid end otherwise
SingleBlankEnd(g, s) ==
  IF \E e \in (s + 2)..Len(g) : RowIsNa(g[e])
  THEN FirstOf({e \in (s + 2)..Len(g) : RowIsNa(g[e])})
  ELSE Len(g) + 1

\* the rows of s+2 .. e-1 that have a label, in their order
RowsWithLabel(g, s, e) ==
  SelectSeq(SubSeq(g, s + 2, e - 1), LAMBDA row : ~LabelEmpty(row[1]))

\* the rows of the table are those grid rows, label by label
SameLabels(rows, expected) ==
  /\ Len(rows) = Len(expected)
  /\ \A k \in 1..Len(rows) : rows[k][1] = expected[k][1]

\* C16: for every grid with the região title at row s and a header row under it,
\* extract_regiao_profissao returns a table whose rows are exactly the grid rows
\* between the header and the first fully-blank row (or the grid end) that have a
\* label; no row at or after that blank row is in it.
C16_SingleBlank ==
  (/\ out.op = "regiao"
   /\ TitleRow(df_raw, s_regiao_por_profissao) # 0
   /\ TitleRow(df_raw, s_regiao_por_profissao) < Len(df_raw)) =>
    /\ out.val.kind = "table"
    /\ SameLabels(out.val.rows,
                  RowsWithLabel(df_raw, TitleRow(df_raw, s_regiao_por_profissao),
                    SingleBlankEnd(df_raw, TitleRow(df_raw, s_regiao_por_profissao))))

\* the single-blank boundary on every grid on which the extractor returns a table
RegiaoBoundaryWhenReturned ==
  (/\ out.op = "regiao" /\ out.val.kind = "table"
   /\ TitleRow(df_raw, s_regiao_por_profissao) # 0) =>
    SameLabels(out.val.rows,
               RowsWithLabel(df_raw, TitleRow(df_raw, s_regiao_por_profissao),
                 SingleBlankEnd(df_raw, TitleRow(df_raw, s_regiao_por_profissao))))

\* the label holds the title of one of the sections, compared without case and accents
SectionTitles ==
  {s_profissoes, s_estado_x_profissao, s_regiao_por_profissao,
   s_vendas_realizadas, s_progecao_de_resultados}
IsSectionLabel(c) == \E t \in SectionTitles : Contains(_strip_accents_lower(c), t)

\* the end of the CAMPO block whose header is row s: the first row under it that is
\* fully blank or whose label is a section title; the grid end otherwise
KvBlockEnd(g, s) ==
  IF \E e \in (s + 1)..Len(g) : RowIsNa(g[e]) \/ IsSectionLabel(g[e][1])
  THEN FirstOf({e \in (s + 1)..Len(g) : RowIsNa(g[e]) \/ IsSectionLabel(g[e][1])})
  ELSE Len(g) + 1

\* the rows of the block: under the header, before its end
KvBlockRows(g) == (KvStart(g) + 1)..(KvBlockEnd(g, KvStart(g)) - 1)

\* C17: every entry of the metrics comes from a row between the CAMPO header and the
\* first row under it that is blank or whose label is a section title; no row at or
\* after that row contributes an entry. The same holds for the rows of the table
\* _extract_kv_block_from_inputs returns.
C17_KvBlockEnd ==
  /\ (out.op = "kv" /\ KvStart(df_raw) # 0) =>
       \A key \in DOMAIN out.val :
         \E i \in KvBlockRows(df_raw) : key = KvKeyAt(df_raw, i)
  /\ (out.op = "kv_block" /\ KvStart(df_raw) # 0 /\ out.val.kind = "table") =>
       /\ Len(out.val.rows) <= Cardinality(KvBlockRows(df_raw))
       /\ \A k \in 1..Len(out.val.rows) :
            \E i \in KvBlockRows(df_raw) : out.val.rows[k][1] = Strip(Str(df_raw[i][1]))

\* the rows of the table of utils.py end at the first blank row or section title
KvBlockEndInUtils ==
  (out.op = "kv_block" /\ KvStart(df_raw) # 0 /\ out.val.kind = "table") =>
    /\ Len(out.val.rows) = Cardinality(KvBlockRows(df_raw))
    /\ \A k \in 1..Len(out.val.rows) :
         out.val.rows[k][1] = Strip(Str(df_raw[KvStart(df_raw) + k][1]))

(*********************** claims on the header of PROFISSOES ***********************)
\* the cells of a row that hold something, and those that name a channel
NonEmptyCount(row) ==
  Cardinality({j \in 1..Len(row) : row[j] # NaN /\ _strip_accents_lower(row[j]) # s_empty})
KeywordScore(row) ==
  Cardinality({j \in 1..Len(row) :
                 \E kw \in channel_keywords : Contains(_strip_accents_lower(row[j]), kw)})

\* the rows of the window of LookaheadRows rows under the title of row s
Window(g, s) == {r \in (s + 1)..(s + LookaheadRows) : r <= Len(g)}

\* the rows of the window that can be a header: enough cells, enough channel names
Candidates(g, s) ==
  {r \in Window(g, s) : NonEmptyCount(g[r]) >= MinNonEmpty /\ KeywordScore(g[r]) >= MinScore}

\* the candidate with the highest score, the earliest of them when several have it
BestHeaderRow(g, s) ==
  CHOOSE r \in Candidates(g, s) :
    \A k \in Candidates(g, s) :
      \/ KeywordScore(g[k]) < KeywordScore(g[r])
      \/ KeywordScore(g[k]) = KeywordScore(g[r]) /\ r <= k

\* C18: when some row of the window can be a header, the table
\* extract_profissoes_por_canal returns is the one read under the candidate with the
\* highest keyword score, the earliest such row on a tie.
C18_HeaderScoring ==
  (/\ out.op = "profissoes"
   /\ TitleRow(df_raw, s_profissoes) # 0
   /\ Candidates(df_raw, TitleRow(df_raw, s_profissoes)) # {}) =>
    out.val = prof_header(df_raw, BestHeaderRow(df_raw, TitleRow(df_raw, s_profissoes)))

\* the table is the one read under the first candidate of the window
HeaderIsFirstCandidate ==
  (/\ out.op = "profissoes"
   /\ TitleRow(df_raw, s_profissoes) # 0
   /\ Candidates(df_raw, TitleRow(df_raw, s_profissoes)) # {}) =>
    out.val = prof_header(df_raw, FirstOf(Candidates(df_raw, TitleRow(df_raw, s_profissoes))))

\* C19: when the title is found and no row of the window has the minimum of
\* non-empty cells and of channel names, extract_profissoes_por_canal returns a
\* table without rows.
C19_AmbiguousHeader ==
  (/\ out.op = "profissoes"
   /\ TitleRow(df_raw, s_profissoes) # 0
   /\ Candidates(df_raw, TitleRow(df_raw, s_profissoes)) = {}) =>
    out.val.kind = "table" /\ out.val.rows = << >>

(************************** claim on same-named columns **************************)
PivotOps == {"estado", "regiao", "profissoes"}

\* the header row the extractor of op reads on grid g; 0 when it has none
HeaderRowOf(op, g) ==
  IF IsEmpty(g) \/ TitleRow(g, SectionToken(op)) = 0 THEN 0
  ELSE IF op = "profissoes"
       THEN (IF prof_header_row(g, TitleRow(g, SectionToken(op))) <= Len(g)
             THEN prof_header_row(g, TitleRow(g, SectionToken(op))) ELSE 0)
  ELSE IF TitleRow(g, SectionToken(op)) < Len(g) THEN TitleRow(g, SectionToken(op)) + 1
  ELSE 0

\* the columns after the first that carry the name of column j
SameNamed(header, j) ==
  {m \in 2..Len(header) : header[m] # NaN /\ Strip(header[m]) = Strip(header[j])}

\* the whole number a cell coerces to, 0 when it is none
IntOf(c) == IF prof_num(c) # NaN /\ prof_num(c)[3] = 0 THEN prof_num(c)[2] ELSE 0

RECURSIVE SumCells(_, _)
SumCells(row, J) ==
  IF J = {} THEN 0
  ELSE IntOf(row[CHOOSE j \in J : TRUE]) + SumCells(row, J \ {CHOOSE j \in J : TRUE})

\* C20: when the header row names several columns alike, the table of
\* extract_estado_profissao, extract_regiao_profissao or extract_profissoes_por_canal
\* has a column of that name that holds, in every row, the sum of the numbers of all
\* those grid columns.
C20_SameNamedSummed ==
  (/\ out.op \in PivotOps /\ out.val.kind = "table" /\ out.val.rows # << >>
   /\ HeaderRowOf(out.op, df_raw) # 0) =>
    \A j \in 2..Len(df_raw[HeaderRowOf(out.op, df_raw)]) :
      (/\ df_raw[HeaderRowOf(out.op, df_raw)][j] # NaN
       /\ Cardinality(SameNamed(df_raw[HeaderRowOf(out.op, df_raw)], j)) > 1) =>
        \E c \in 1..Len(out.val.columns) :
          /\ out.val.columns[c] = Strip(df_raw[HeaderRowOf(out.op, df_raw)][j])
          /\ \A k \in 1..Len(out.val.rows) :
               \E i \in (HeaderRowOf(out.op, df_raw) + 1)..Len(df_raw) :
                 /\ df_raw[i][1] = out.val.rows[k][1]
                 /\ out.val.rows[k][c] =
                      Num(SumCells(df_raw[i], SameNamed(df_raw[HeaderRowOf(out.op, df_raw)], j)), 0)

(********************** claims on the numeric pass of the pivots **********************)
\* the row where the while loop of the extractor of op stops, for header row h
PivotEnd(op, g, h) == IF op = "estado" THEN estado_end(g, h + 1) ELSE regiao_end(g, h + 1)

\* the rows under the header that the extractor of op converts, blanks filled
PivotBody(op, g) ==
  FillRows(SubSeq(g, HeaderRowOf(op, g) + 1, PivotEnd(op, g, HeaderRowOf(op, g)) - 1))

\* the rows of the body the final filter on the key column keeps, in their order
KeptRows(body) == SelectSeq(body, LAMBDA r : Strip(Str(r[1])) # s_empty)

\* the cells of column j that hold a value, and those of them that parse as a number
NonEmptyCells(body, j) == {i \in 1..Len(body) : body[i][j] # s_empty}
ParsedCells(body, j) == {i \in NonEmptyCells(body, j) : pivot_num(body[i][j]) # NaN}

\* at least half of the non-empty values of column j parse
HalfOfNonEmpty(body, j) ==
  2 * Cardinality(ParsedCells(body, j)) >= Cardinality(NonEmptyCells(body, j))

\* at least half of all the cells of column j parse, the empty ones counted
HalfOfAll(body, j) ==
  Len(body) > 0 /\ 2 * Cardinality(ParsedCells(body, j)) >= Len(body)

\* the cell as a number, 0 when it does not parse
AsNumber(c) == ZeroIfNaN(pivot_num(c))

\* every row of the table is the kept row, column j converted when numeric(j)
ColumnsBy(val, kept, numeric(_)) ==
  /\ Len(val.rows) = Len(kept)
  /\ \A k \in 1..Len(kept) : \A j \in 2..Len(kept[k]) :
       val.rows[k][j] = IF numeric(j) THEN AsNumber(kept[k][j]) ELSE kept[k][j]

\* C21: in the table of extract_estado_profissao or extract_regiao_profissao a column
\* after the key column that has a non-empty value holds numbers exactly when at
\* least half of its non-empty values parse as numbers, the empty cells not counted;
\* otherwise it holds its text unchanged.
C21_NumericThreshold ==
  (/\ out.op \in {"estado", "regiao"} /\ out.val.kind = "table"
   /\ HeaderRowOf(out.op, df_raw) # 0) =>
    /\ Len(out.val.rows) = Len(KeptRows(PivotBody(out.op, df_raw)))
    /\ \A k \in 1..Len(out.val.rows) : \A j \in 2..Len(out.val.rows[k]) :
         NonEmptyCells(PivotBody(out.op, df_raw), j) # {} =>
           out.val.rows[k][j] =
             IF HalfOfNonEmpty(PivotBody(out.op, df_raw), j)
             THEN AsNumber(KeptRows(PivotBody(out.op, df_raw))[k][j])
             ELSE KeptRows(PivotBody(out.op, df_raw))[k][j]

\* the threshold of the code: a column is converted exactly when at least half of
\* all its cells parse, the empty cells counted as cells that do not parse
NumericWhenHalfOfRows ==
  (/\ out.op \in {"estado", "regiao"} /\ out.val.kind = "table"
   /\ HeaderRowOf(out.op, df_raw) # 0) =>
    ColumnsBy(out.val, KeptRows(PivotBody(out.op, df_raw)),
              LAMBDA j : HalfOfAll(PivotBody(out.op, df_raw), j))

\* a table of extract_estado_profissao with a column of one number and two empty cells
C21_FailingInput ==
  /\ out.op = "estado" /\ out.val.kind = "table"
  /\ df_raw = << <<t_ESTADO, NaN, NaN>>, <<t_UF, t_Total, t_Total>>, <<t_SP, t_1, t_2>>,
                 <<NaN, NaN, NaN>>, <<NaN, NaN, NaN>> >>

(***************************** claims on the cached grid *****************************)
\* request r has run an extractor on the frame object the cache slot holds
ExtractedFromSlot(r) ==
  /\ req[r].pc = "done" /\ _DF_CACHE.df # NoFrame /\ req[r].df = _DF_CACHE.df

IsSuccess(o) == o.kind = "response" /\ o.status < 400

\* the error of a failed attempt
ErrorOf(o) == IF o.kind = "raises" THEN o.exc ELSE "HTTPError"

\* the attempts made so far that failed
FailedAttempts(d) == {k \in 1..Len(d.gets) : ~IsSuccess(d.gets[k])}

DownloadOver(d) == d.pc \in {"returned", "raised"}

\* at most max_attempts requests; a successful request is the last one and its
\* content is what the call returns
BoundedAttempts(d) ==
  /\ Len(d.gets) <= d.max_attempts
  /\ \A k \in 1..Len(d.gets) :
       IsSuccess(d.gets[k]) =>
         k = Len(d.gets) /\ d.pc = "returned" /\ d.result = d.gets[k].content
  /\ d.pc = "returned" => Len(d.gets) >= 1 /\ IsSuccess(d.gets[Len(d.gets)])

\* the i-th failure is followed by a wait of 2^i seconds, and by no other wait
BackoffWaits(d) ==
  /\ \A k \in 1..Len(d.slept) : d.slept[k] = 2 ^ k
  /\ Len(d.slept) = Cardinality(FailedAttempts(d)) - (IF d.pc = "sleep" THEN 1 ELSE 0)

\* the call raises only after max_attempts failed requests, and raises the last error
RaisesLastError(d) ==
  (d.pc = "raised" /\ d.max_attempts >= 1) =>
    /\ Len(d.gets) = d.max_attempts
    /\ FailedAttempts(d) = 1..d.max_attempts
    /\ d.exc = ErrorOf(d.gets[d.max_attempts])

\* C23: a call of _download_to_bytes with max_attempts >= 0 makes at most max_attempts
\* requests, returns the content of the first successful request and makes no request
\* after it, waits 2^i seconds after the i-th failure, and ends: with max_attempts >= 1
\* it returns or, after max_attempts failures in a row, raises the error of the last
\* attempt.
C23_BoundedRetry ==
  /\ [](BoundedAttempts(download) /\ BackoffWaits(download) /\ RaisesLastError(download))
  /\ <>DownloadOver(download)

\* three attempts failed, each followed by its wait, and the last error was raised
C23_Witness ==
  /\ download.pc = "raised" /\ download.max_attempts = 3
  /\ download.slept = <<2, 4, 8>>
  /\ download.exc = ErrorOf(download.gets[3])

(************************** claims on the failed reload **************************)
\* request r is about to store the timestamp of a reload that obtained no source: the
\* frame load_dataframe returned to it has the empty grid
StampsFailedReload(r) ==
  req[r].pc = "stamp" /\ req'[r].pc = "extract" /\ frames[req[r].loaded] = << >>

\* the slot holds the entry of a failed reload, and the entry is not older than the TTL
FailedEntryFresh ==
  /\ _DF_CACHE.df # NoFrame /\ _DF_CACHE.loaded_at # NoTime
  /\ _DF_CACHE.mode = "none"
  /\ clock - _DF_CACHE.loaded_at <= CACHE_TTL_SECONDS

\* request r calls get_data
CallsGetData(r) == req[r].pc = "idle" /\ req'[r].pc # "idle"

\* the slot after the failed reload of r: its empty frame, the time get_data read, 'none'
FailedEntryOf(r) == [df |-> req[r].loaded, loaded_at |-> req[r].now, mode |-> "none"]

\* C24: when the reload a get_data call started obtains no source, the call leaves in
\* the cache slot the empty grid, mode 'none' and the time it read; and every get_data
\* call made while the slot holds such an entry, not older than the TTL, returns the
\* empty grid and starts no load.
C24_FailedReloadCached ==
  [][\A r \in Requests :
       /\ StampsFailedReload(r) => _DF_CACHE' = FailedEntryOf(r)
       /\ (CallsGetData(r) /\ FailedEntryFresh) =>
            /\ req'[r].pc = "extract" /\ frames[req'[r].df] = << >>
            /\ loads' = loads]_vars

\* no request is between the return of load_dataframe and the store of its timestamp
NoReloadInFlight == \A q \in Requests : req[q].pc # "stamp"

\* the same, for the reloads that do not overlap another one: the frame of r is still
\* the one in the slot when r stores its timestamp, and no request is inside a reload
\* when get_data is called
FailedReloadCachedWhenAlone ==
  [][\A r \in Requests :
       /\ (StampsFailedReload(r) /\ _DF_CACHE.df = req[r].loaded) =>
            _DF_CACHE' = FailedEntryOf(r)
       /\ (CallsGetData(r) /\ FailedEntryFresh /\ NoReloadInFlight) =>
            /\ req'[r].pc = "extract" /\ frames[req'[r].df] = << >>
            /\ loads' = loads]_vars

\* a get_data call has returned a grid with rows while the slot holds the timestamp
\* and the mode of a failed reload that is not older than the TTL
C24_FailingInput ==
  /\ FailedEntryFresh
  /\ \E r \in Requests : req[r].pc = "extract" /\ frames[req[r].df] # << >>
  /\ \E q \in Requests : req[q].pc = "stamp"
====
